---- MODULE Spec2Model ----
(***************************************************************************)
(* BeQ: the conversational orchestrator (services/orchestrator), the       *)
(* calendar conflict detector (services/calendar-integration) and the      *)
(* heuristic planner (services/scheduler), each as a state machine.        *)
(*                                                                         *)
(*   Spec      / FairSpec : one turn of OrchestratorAgent at a time        *)
(*   DetectSpec           : one ConflictDetector engine and its calls      *)
(*   PlanSpec             : SimpleScheduler on bounded inputs              *)
(***************************************************************************)
EXTENDS Integers, Sequences, FiniteSets, TLC

VARIABLES
    \* ---- OrchestratorAgent.process_user_message / LangGraph workflow ----
    pc,              \* position of the turn
    user_id,         \* AgentState.user_id: the caller of the turn
    messages,        \* AgentState.messages
    hist_len,        \* number of messages loaded from history (before the new user message)
    tools_used,      \* AgentState.tools_used (the list object initial_state holds)
    bricks_created,  \* AgentState.bricks_created
    bricks_updated,  \* AgentState.bricks_updated
    tc_idx,          \* custom_tool_node: index of the tool call being processed
    tool_results,    \* custom_tool_node: local list tool_results
    handler_calls,   \* observations: the tool_input every tool.arun received in this turn
    dispatch_cycles, \* observations: number of assistant messages whose tool calls were dispatched
    llm_script,      \* what the provider does on attempts 1..3 of the last generate_response
    llm_reply,       \* what the provider answers when an attempt succeeds
    llm_attempts,    \* provider calls made by the last generate_response
    response,        \* the AgentResponse returned by process_user_message
    \* ---- ConflictDetector ----
    conflicts,       \* self.conflicts: conflict_id -> Conflict
    resolutions,     \* self.resolutions: conflict_id -> ConflictResolution
    det_input,       \* the events of the last detect_conflicts call
    det_result,      \* the list the last detect_conflicts call returned
    det_window,      \* the time window of the last detect_conflicts call
    det_raised,      \* whether the last engine call raised ValueError
    det_log,         \* the engine calls made so far, in order
    auto_result,     \* the list the last auto_resolve_conflicts call returned
    \* ---- SimpleScheduler ----
    plan_stage,      \* "init" | "slots" | "scheduled"
    preferences,     \* SimpleScheduler.preferences
    plan_range,      \* start_date and end_date handed to generate_available_slots
    plan_events,     \* existing_events handed to generate_available_slots
    plan_tasks,      \* tasks handed to schedule_tasks
    available_slots, \* result of generate_available_slots
    scheduled_slots, \* schedule_tasks: scheduled_slots
    unscheduled_tasks, \* schedule_tasks: unscheduled_tasks
    \* ---- brick_management_tools: the bricks and quantas tables ----
    db_bricks,       \* rows of table bricks
    db_quantas,      \* rows of table quantas
    tool_call,       \* the last delete tool call: its input, the tables before it, its result
    \* ---- concurrent chat requests on the one OrchestratorAgent ----
    msg_table,       \* rows of table messages
    checkpoints,     \* MemorySaver: thread_id -> the messages of the thread's last checkpoint
    reqs,            \* the process_user_message calls in flight, by request
    finished,        \* the turns that returned: conversation, number, user message, response
    turn_count,      \* number of turns started
    \* ---- the planner's LLM client ----
    sched_call,      \* the last OpenAIClient.generate_schedule call: context, reply, result
    \* ---- Google token refresh of the calendar integration ----
    token_store,     \* TokenStorage: user -> the stored Google tokens, or NoTokens
    refreshes,       \* the refresh_google_tokens requests, by request slot
    provider_calls,  \* calls received by the provider's token endpoint, per user
    refresh_count,   \* number of refresh requests started
    \* ---- POST /api/v1/schedule/generate of the orchestrator ----
    flag_enabled,    \* FeatureFlagManager: schedule_optimization
    gen_req,         \* the generate request being served: stage, attempts, response
    gen_count,       \* number of generate requests received
    \* ---- conflict endpoints of the calendar integration ----
    cal_req,         \* a client's GET conflicts and the POST resolve that follows it
    \* ---- generate_available_slots of the heuristic planner, step by step ----
    slot_gen         \* the call: position, arguments, loop variables, result

orchVars == <<pc, user_id, messages, hist_len, tools_used, bricks_created,
              bricks_updated, tc_idx, tool_results, handler_calls,
              dispatch_cycles, llm_script, llm_reply, llm_attempts, response>>
detVars  == <<conflicts, resolutions, det_input, det_window, det_result,
              det_raised, det_log, auto_result>>
planVars == <<plan_stage, preferences, plan_range, plan_events, plan_tasks,
              available_slots,
              scheduled_slots, unscheduled_tasks>>
brickVars == <<db_bricks, db_quantas, tool_call>>
convVars == <<msg_table, checkpoints, reqs, finished, turn_count>>
llmVars  == <<sched_call>>
oauthVars == <<token_store, refreshes, provider_calls, refresh_count>>
apiVars  == <<flag_enabled, gen_req, gen_count>>
calVars  == <<cal_req>>
genVars  == <<slot_gen>>
moreVars == <<llmVars, oauthVars, apiVars, calVars, genVars>>
extVars  == <<brickVars, convVars, moreVars>>
vars     == <<orchVars, detVars, planVars, extVars>>

(***************************************************************************)
(* Generic helpers                                                         *)
(***************************************************************************)
Last(s) == s[Len(s)]

Range(s) == {s[i] : i \in 1..Len(s)}

RECURSIVE SeqsUpTo(_, _)
SeqsUpTo(S, n) ==
    IF n = 0 THEN {<<>>}
    ELSE LET shorter == SeqsUpTo(S, n - 1)
         IN  shorter \cup {Append(s, x) : s \in {t \in shorter : Len(t) = n - 1}, x \in S}

(***************************************************************************)
(* Bounds                                                                  *)
(***************************************************************************)
MaxHistoryRows == 1      \* rows of the messages table loaded as history
MaxMessages == 16        \* length of AgentState.messages (never reached by the code's own cap)

(***************************************************************************)
(* Program constants                                                       *)
(***************************************************************************)
MAX_AI_MESSAGES == 5     \* _should_continue: ai_message_count > 5
MAX_ATTEMPTS == 3        \* @retry(stop=stop_after_attempt(3))

END == "__end__"
NoUser == "none"
Users == {"u1", "u2"}

\* Fixed texts of the code.
FALLBACK_TEXT == "I apologize, but I'm having trouble processing your request right now. Please try again."
TIMEOUT_TEXT == "I'm taking longer than expected to process your request. Please try again with a simpler question."
ERROR_RESPONSE_TEXT == "I apologize, but I encountered an error processing your request. Please try again or rephrase your message."
CALL_MODEL_ERROR_TEXT == "I encountered an error while processing your request"
MODEL_ANSWER == "model answer"

(***************************************************************************)
(* Tools (OrchestratorAgent._initialize_tools, custom_tool_node)           *)
(***************************************************************************)
\* The names of self.tools.
RegisteredTools ==
    {"schedule_brick", "optimize_schedule", "get_schedule",
     "create_brick", "update_brick", "get_bricks", "create_quanta",
     "update_quanta", "get_quantas", "delete_brick", "delete_quanta",
     "get_resource_recommendations", "search_resources",
     "get_calendar_events", "sync_calendar"}

\* custom_tool_node: the local list tools_needing_user_id.
tools_needing_user_id ==
    {"create_brick", "get_bricks", "update_brick", "delete_brick",
     "get_quantas", "create_quanta", "update_quanta", "delete_quanta",
     "schedule_brick", "optimize_schedule", "get_schedule",
     "get_resource_recommendations", "search_resources",
     "get_calendar_events", "sync_calendar"}

\* function.arguments as the model wrote it: a JSON object (which may carry a
\* user_id of the model's choosing), a string that is not JSON, or JSON that
\* is not an object (a list, null, a number).
ObjectArgs(u) == [form |-> "object", user_id |-> u]
BadJsonArgs == [form |-> "bad_json", user_id |-> NoUser]
NonObjectArgs == [form |-> "non_object", user_id |-> NoUser]

\* The tool calls the model is let to emit.
PlainCall == [name |-> "get_bricks", args |-> ObjectArgs(NoUser)]
ModelCalls ==
    { PlainCall,
      [name |-> "create_brick", args |-> ObjectArgs("u2")],
      [name |-> "update_brick", args |-> ObjectArgs("u1")],
      [name |-> "get_bricks", args |-> BadJsonArgs],
      [name |-> "create_brick", args |-> NonObjectArgs],
      [name |-> "get_schedule", args |-> ObjectArgs(NoUser)],
      [name |-> "optimize_schedule", args |-> ObjectArgs(NoUser)],
      [name |-> "no_such_tool", args |-> ObjectArgs(NoUser)] }

\* The second call of an assistant message that carries two.
SecondCalls ==
    { [name |-> "create_brick", args |-> ObjectArgs("u2")],
      [name |-> "update_brick", args |-> ObjectArgs("u1")],
      [name |-> "create_brick", args |-> NonObjectArgs] }

\* What tool.arun does with a call: returns a text ("ok"; for the tools whose
\* result text _track_tool_execution reads, a success text "ok" or a failure
\* text "failed"), or raises (validation of the input, or the handler itself).
ToolOutcomes(name) ==
    IF name \in {"create_brick", "update_brick"}
    THEN {"ok", "failed", "raised"}
    ELSE {"ok", "raised"}

\* custom_tool_node, lines 250-259: json.loads of a string argument; a string
\* that does not parse becomes {}.
ParseToolArgs(args) ==
    CASE args.form = "object"     -> [is_dict |-> TRUE, has_fields |-> TRUE, user_id |-> args.user_id]
      [] args.form = "bad_json"   -> [is_dict |-> TRUE, has_fields |-> FALSE, user_id |-> NoUser]
      [] args.form = "non_object" -> [is_dict |-> FALSE, has_fields |-> FALSE, user_id |-> NoUser]

\* Mutant: the caller's id is filled in only when the model gave none.
InjectUserIdIfMissing(parsed, uid) ==
    IF parsed.user_id = NoUser THEN [parsed EXCEPT !.user_id = uid] ELSE parsed

\* custom_tool_node, lines 270-272: tool_args["user_id"] = state.get("user_id").
InjectUserId(parsed, uid) == [parsed EXCEPT !.user_id = uid]

(***************************************************************************)
(* Messages                                                                *)
(***************************************************************************)
HumanMessage(c) ==
    [role |-> "human", content |-> c, tool_calls |-> <<>>, tool_call_id |-> 0, status |-> "none"]
AIMessage(c, calls) ==
    [role |-> "ai", content |-> c, tool_calls |-> calls, tool_call_id |-> 0, status |-> "none"]
ToolMessage(id, st) ==
    [role |-> "tool", content |-> "tool result", tool_calls |-> <<>>, tool_call_id |-> id, status |-> st]

\* ids the provider gives the tool calls of one assistant message: unique in a turn.
WithIds(calls, n) ==
    [k \in 1..Len(calls) |->
        [id |-> 10 * n + k, name |-> calls[k].name, args |-> calls[k].args]]

\* _should_continue, line 322.
ai_message_count(msgs) == Cardinality({i \in 1..Len(msgs) : msgs[i].role = "ai"})

\* process_user_message, lines 872-881: rows of the messages table become a
\* user message and, when the row has a response, an assistant message.
RECURSIVE HistoryMessages(_)
HistoryMessages(rows) ==
    IF rows = <<>> THEN <<>>
    ELSE <<HumanMessage("past message")>>
         \o (IF rows[1] THEN <<AIMessage("past response", <<>>)>> ELSE <<>>)
         \o HistoryMessages(Tail(rows))

(***************************************************************************)
(* LLM client (llm/openrouter_client.py)                                   *)
(***************************************************************************)
\* The provider fails the first k attempts of a call and answers from then on.
ProviderScripts ==
    {[n \in 1..MAX_ATTEMPTS |-> IF n <= k THEN "fail" ELSE "ok"] : k \in 0..MAX_ATTEMPTS}

\* The body of generate_response, lines 64-96: the try block answers with the
\* provider's reply; every exception is caught and the fixed text is returned.
GenerateResponseBody(outcome, reply) ==
    IF outcome = "ok"
    THEN [raised |-> FALSE, value |-> reply]
    ELSE [raised |-> FALSE, value |-> [content |-> FALLBACK_TEXT, tool_calls |-> <<>>]]

\* @retry(stop=stop_after_attempt(3)): the body is run again while it raises.
RECURSIVE RetryGenerate(_, _, _)
RetryGenerate(script, reply, n) ==
    LET r == GenerateResponseBody(script[n], reply)
    IN  IF ~r.raised THEN [raised |-> FALSE, value |-> r.value, attempts |-> n]
        ELSE IF n >= MAX_ATTEMPTS
             THEN [raised |-> TRUE, value |-> r.value, attempts |-> n]
             ELSE RetryGenerate(script, reply, n + 1)

generate_response(script, reply) == RetryGenerate(script, reply, 1)

\* What the model may answer: a text, one tool call, or two tool calls.
TextReply == [content |-> MODEL_ANSWER, tool_calls |-> <<>>]
ModelReplies ==
    {TextReply}
    \cup {[content |-> "", tool_calls |-> <<c>>] : c \in ModelCalls}
    \cup {[content |-> "", tool_calls |-> <<c, d>>] : c \in ModelCalls, d \in SecondCalls}

(***************************************************************************)
(* OrchestratorAgent: the turn                                             *)
(***************************************************************************)
NoResponse == [kind |-> "none"]

\* Entries of bricks_created / bricks_updated: a UUID-shaped id, or another
\* string (a title, "Unknown").
UuidEntry(v) == [uuid |-> TRUE, v |-> v]
TextEntry == [uuid |-> FALSE, v |-> 0]
\* tool_args.get("brick_id", "Unknown") of an update_brick call: the id the
\* model named, or "Unknown" when the arguments carry no fields.
ArgBrickId(parsed) == IF parsed.has_fields THEN UuidEntry(1) ELSE TextEntry

\* _safe_parse_uuid applied as in lines 928-929: entries that are no UUID are dropped.
SafeParseUuids(entries) == SelectSeq(entries, LAMBDA e : e.uuid)

\* _track_tool_execution, lines 512-546, for a call whose arun returned `status`.
TrackBricksCreated(created, call, parsed, status) ==
    IF call.name = "create_brick"
    THEN IF status = "ok" THEN Append(created, UuidEntry(call.id))
         ELSE Append(created, TextEntry)
    ELSE created

TrackBricksUpdated(updated, call, parsed, status) ==
    IF call.name = "update_brick" /\ status = "ok"
    THEN Append(updated, ArgBrickId(parsed))
    ELSE updated

TrackToolsUsed(used, call) == Append(used, call.name)

\* Mutant: the count of assistant messages is not looked at.
should_continue_uncapped(msgs) ==
    IF msgs = <<>> THEN END
    ELSE IF Last(msgs).tool_calls # <<>> THEN "tools"
    ELSE END

\* _should_continue, lines 315-339.
should_continue(msgs) ==
    IF msgs = <<>> THEN END
    ELSE IF ai_message_count(msgs) > MAX_AI_MESSAGES THEN END
    ELSE IF Last(msgs).tool_calls # <<>> THEN "tools"
    ELSE END

\* process_user_message, lines 918-931: the AgentResponse built from a final state.
MakeResponse(kind, text, used, created, updated) ==
    [kind |-> kind,
     response_text |-> text,
     actions_taken |-> used,
     schedule_updated |-> FALSE,
     bricks_created |-> SafeParseUuids(created),
     bricks_updated |-> SafeParseUuids(updated)]

\* process_user_message, lines 942-955: the response of the outer except.
ErrorResponse ==
    [kind |-> "error",
     response_text |-> ERROR_RESPONSE_TEXT,
     actions_taken |-> <<"error_handling">>,
     schedule_updated |-> FALSE,
     bricks_created |-> <<>>,
     bricks_updated |-> <<>>]

\* Mutant: the timeout response is built from fresh, empty lists.
TimeoutResponseFresh(used, created, updated) ==
    MakeResponse("timeout", TIMEOUT_TEXT, <<>>, <<>>, <<>>)

\* process_user_message, lines 907-916: final_state = {**initial_state, ...}.
\* initial_state holds the very list objects the tool node appended to.
TimeoutResponse(used, created, updated) ==
    MakeResponse("timeout", TIMEOUT_TEXT, used, created, updated)

\* --- bounding the explored model behaviours ---
IsPlainAI(m) ==
    /\ Len(m.tool_calls) = 1
    /\ m.tool_calls[1].name = PlainCall.name
    /\ m.tool_calls[1].args = PlainCall.args

CallIds(m) == {m.tool_calls[k].id : k \in 1..Len(m.tool_calls)}

\* The explored turns: in at most one cycle of a turn the model or a tool does
\* something other than "one get_bricks call, which succeeds".
DeviantCycles(msgs) ==
    {i \in 1..Len(msgs) :
        /\ i > hist_len + 1
        /\ msgs[i].role = "ai"
        /\ msgs[i].tool_calls # <<>>
        /\ \/ ~IsPlainAI(msgs[i])
           \/ \E j \in 1..Len(msgs) :
                /\ msgs[j].role = "tool"
                /\ msgs[j].tool_call_id \in CallIds(msgs[i])
                /\ msgs[j].status # "ok"}

Explored(msgs) == \A i, j \in DeviantCycles(msgs) : i = j

OrchInit ==
    /\ pc = "idle"
    /\ user_id = NoUser
    /\ messages = <<>>
    /\ hist_len = 0
    /\ tools_used = <<>>
    /\ bricks_created = <<>>
    /\ bricks_updated = <<>>
    /\ tc_idx = 1
    /\ tool_results = <<>>
    /\ handler_calls = <<>>
    /\ dispatch_cycles = 0
    /\ llm_script = <<>>
    /\ llm_reply = [content |-> "", tool_calls |-> <<>>]
    /\ llm_attempts = 0
    /\ response = NoResponse

\* time_window_start / time_window_end of detect_conflicts left at None
NoWindow == [given |-> FALSE, start |-> 0, end |-> 0]

DetInit ==
    /\ conflicts = <<>>
    /\ resolutions = <<>>
    /\ det_input = <<>>
    /\ det_window = NoWindow
    /\ det_result = <<>>
    /\ det_raised = FALSE
    /\ det_log = <<>>
    /\ auto_result = <<>>

\* UserPreferences(), lines 37-46: the dataclass defaults, times in minutes of the day
DefaultPreferences ==
    [work_start |-> 9 * 60, work_end |-> 17 * 60, break_duration |-> 15,
     break_frequency |-> 90, lunch_time |-> 12 * 60, lunch_duration |-> 60]

PlanInit ==
    /\ plan_stage = "init"
    /\ preferences = DefaultPreferences
    /\ plan_range = [start_date |-> 0, end_date |-> 0]
    /\ plan_events = <<>>
    /\ plan_tasks = <<>>
    /\ available_slots = <<>>
    /\ scheduled_slots = <<>>
    /\ unscheduled_tasks = <<>>

\* The tables when the tools start: brick b1 of user u1 with two quantas,
\* brick b2 of user u2 with one.
BrickRow(id, owner) == [id |-> id, user_id |-> owner]
QuantaRow(id, brick_id) == [id |-> id, brick_id |-> brick_id]
NoToolCall == [tool |-> "none"]

BrickInit ==
    /\ db_bricks = {BrickRow("b1", "u1"), BrickRow("b2", "u2")}
    /\ db_quantas = {QuantaRow("q1", "b1"), QuantaRow("q2", "b1"), QuantaRow("q3", "b2")}
    /\ tool_call = NoToolCall

\* A row of table messages: one user message with the response stored for it
MessageRow(conversation_id, content, stored_response) ==
    [conversation_id |-> conversation_id, content |-> content, response |-> stored_response]

ConversationIds == {"c1", "c2"}
Requests == {"r1", "r2"}
IdleRequest ==
    [pc |-> "idle", conversation_id |-> "none", no |-> 0, working |-> <<>>,
     prior |-> {}, response_text |-> ""]

\* Conversation c1 has one stored exchange; the agent's MemorySaver is empty.
ConvInit ==
    /\ msg_table = <<MessageRow("c1", "m0", "a0")>>
    /\ checkpoints = [c \in ConversationIds |-> <<>>]
    /\ reqs = [r \in Requests |-> IdleRequest]
    /\ finished = {}
    /\ turn_count = 0

\* No generate_schedule call has been made.
LlmInit == sched_call = [stage |-> "idle"]

NoTokens == [access_token |-> -1, refresh_token |-> "none"]
Tokens(access_token, refresh_token) ==
    [access_token |-> access_token, refresh_token |-> refresh_token]
OAuthUsers == {"u1", "u2", "u3"}
RefreshSlots == {"q1", "q2"}
IdleRefresh ==
    [pc |-> "idle", user_id |-> "none", tokens |-> NoTokens, new_tokens |-> NoTokens,
     called |-> FALSE, peers |-> {}, status |-> 0]

\* u1 and u2 have connected Google; u3 has not.
OAuthInit ==
    /\ token_store = [u \in OAuthUsers |->
                         CASE u = "u1" -> Tokens(0, "rt1")
                           [] u = "u2" -> Tokens(0, "rt2")
                           [] OTHER -> NoTokens]
    /\ refreshes = [r \in RefreshSlots |-> IdleRefresh]
    /\ provider_calls = [u \in OAuthUsers |-> 0]
    /\ refresh_count = 0

NoHttpResponse == [status_code |-> 0]
\* schedule_optimization is enabled by default.
ApiInit ==
    /\ flag_enabled = TRUE
    /\ gen_req = [stage |-> "idle", attempts |-> <<>>, response |-> NoHttpResponse]
    /\ gen_count = 0

CalInit == cal_req = [stage |-> "idle"]

GenInit == slot_gen = [pc |-> "idle"]

ExtInit == BrickInit /\ ConvInit /\ LlmInit /\ OAuthInit /\ ApiInit /\ CalInit /\ GenInit

Init == OrchInit /\ DetInit /\ PlanInit /\ ExtInit

\* The rows a conversation may hold when a turn starts: earlier turns, each
\* stored as a user message with its assistant response.
StoredHistories ==
    {[i \in 1..n |-> TRUE] : n \in (0..MaxHistoryRows) \cup {MAX_AI_MESSAGES}}

\* process_user_message, lines 863-898: history is loaded, the new message is
\* appended and the initial state is built.
StartTurn ==
    /\ pc = "idle"
    /\ \E uid \in Users, rows \in StoredHistories :
        /\ user_id' = uid
        /\ messages' = HistoryMessages(rows) \o <<HumanMessage("user message")>>
        /\ hist_len' = Len(HistoryMessages(rows))
    /\ tools_used' = <<>>
    /\ bricks_created' = <<>>
    /\ bricks_updated' = <<>>
    /\ tc_idx' = 1
    /\ tool_results' = <<>>
    /\ handler_calls' = <<>>
    /\ dispatch_cycles' = 0
    /\ llm_script' = <<>>
    /\ llm_reply' = [content |-> "", tool_calls |-> <<>>]
    /\ llm_attempts' = 0
    /\ response' = NoResponse
    /\ pc' = "call_model"
    /\ UNCHANGED <<detVars, planVars, extVars>>

\* _call_model, lines 341-427.
CallModel ==
    /\ pc = "call_model"
    /\ Len(messages) < MaxMessages
    /\ \E script \in ProviderScripts :
       \E reply \in (IF script[1] = "ok" THEN ModelReplies
                     ELSE {TextReply}) :
         LET res == generate_response(script, reply)
             ai  == IF res.raised
                    THEN AIMessage(CALL_MODEL_ERROR_TEXT, <<>>)
                    ELSE AIMessage(res.value.content,
                                   WithIds(res.value.tool_calls, Len(messages) + 1))
         IN  /\ Explored(Append(messages, ai))
             /\ messages' = Append(messages, ai)
             /\ llm_script' = script
             /\ llm_reply' = reply
             /\ llm_attempts' = res.attempts
    /\ pc' = "decide"
    /\ UNCHANGED <<user_id, hist_len, tools_used, bricks_created, bricks_updated,
                   tc_idx, tool_results, handler_calls, dispatch_cycles, response,
                   detVars, planVars, extVars>>

\* The conditional edge after call_model (_create_workflow, lines 218-225).
ShouldContinue ==
    /\ pc = "decide"
    /\ IF should_continue(messages) = "tools"
       THEN /\ pc' = "tools"
            /\ dispatch_cycles' = dispatch_cycles + 1
       ELSE /\ pc' = "finalize"
            /\ UNCHANGED dispatch_cycles
    /\ tc_idx' = 1
    /\ tool_results' = <<>>
    /\ UNCHANGED <<user_id, messages, hist_len, tools_used, bricks_created,
                   bricks_updated, handler_calls, llm_script, llm_reply,
                   llm_attempts, response, detVars, planVars, extVars>>

\* custom_tool_node, lines 248-311: one pass of the loop over tool_calls; the
\* pass over the last call also returns {"messages": tool_results}.
DispatchToolCall ==
    /\ pc = "tools"
    /\ LET call   == Last(messages).tool_calls[tc_idx]
           parsed == ParseToolArgs(call.args)
           last   == tc_idx = Len(Last(messages).tool_calls)
           Finish(results) ==
               IF last
               THEN /\ Explored(messages \o results)
                    /\ messages' = messages \o results
                    /\ tool_results' = <<>>
                    /\ tc_idx' = 1
                    /\ pc' = "call_model"
               ELSE /\ Explored(messages \o results)
                    /\ messages' = messages
                    /\ tool_results' = results
                    /\ tc_idx' = tc_idx + 1
                    /\ pc' = "tools"
       IN  IF call.name \in tools_needing_user_id /\ ~parsed.is_dict
           THEN \* tool_args["user_id"] = ... raises TypeError outside the try:
                \* the node fails, ainvoke raises, the outer except answers.
                /\ pc' = "done"
                /\ response' = ErrorResponse
                /\ UNCHANGED <<messages, tool_results, tc_idx, tools_used,
                               bricks_created, bricks_updated, handler_calls>>
           ELSE LET tool_args == IF call.name \in tools_needing_user_id
                                 THEN InjectUserId(parsed, user_id)
                                 ELSE parsed
                IN  IF call.name \in RegisteredTools
                    THEN \E outcome \in ToolOutcomes(call.name) :
                           /\ handler_calls' = Append(handler_calls,
                                   [id |-> call.id, name |-> call.name,
                                    user_id |-> tool_args.user_id])
                           /\ IF outcome = "raised"
                              THEN /\ Finish(Append(tool_results, ToolMessage(call.id, "raised")))
                                   /\ UNCHANGED <<tools_used, bricks_created, bricks_updated>>
                              ELSE /\ Finish(Append(tool_results, ToolMessage(call.id, outcome)))
                                   /\ bricks_created' = TrackBricksCreated(bricks_created, call, tool_args, outcome)
                                   /\ bricks_updated' = TrackBricksUpdated(bricks_updated, call, tool_args, outcome)
                                   /\ tools_used' = TrackToolsUsed(tools_used, call)
                           /\ UNCHANGED response
                    ELSE /\ Finish(Append(tool_results, ToolMessage(call.id, "not_found")))
                         /\ UNCHANGED <<tools_used, bricks_created, bricks_updated,
                                        handler_calls, response>>
    /\ UNCHANGED <<user_id, hist_len, dispatch_cycles, llm_script, llm_reply,
                   llm_attempts, detVars, planVars, extVars>>

\* process_user_message, lines 918-940, after ainvoke returned.
Finalize ==
    /\ pc = "finalize"
    /\ response' = MakeResponse("final", Last(messages).content,
                                tools_used, bricks_created, bricks_updated)
    /\ pc' = "done"
    /\ UNCHANGED <<user_id, messages, hist_len, tools_used, bricks_created,
                   bricks_updated, tc_idx, tool_results, handler_calls,
                   dispatch_cycles, llm_script, llm_reply, llm_attempts,
                   detVars, planVars, extVars>>

\* asyncio.wait_for(..., timeout=45.0) fires while the workflow runs,
\* lines 901-916.
TurnTimeout ==
    /\ pc \in {"call_model", "decide", "tools"}
    /\ response' = TimeoutResponse(tools_used, bricks_created, bricks_updated)
    /\ pc' = "done"
    /\ UNCHANGED <<user_id, messages, hist_len, tools_used, bricks_created,
                   bricks_updated, tc_idx, tool_results, handler_calls,
                   dispatch_cycles, llm_script, llm_reply, llm_attempts,
                   detVars, planVars, extVars>>

Next ==
    \/ StartTurn
    \/ CallModel
    \/ ShouldContinue
    \/ DispatchToolCall
    \/ Finalize
    \/ TurnTimeout

Spec == Init /\ [][Next]_vars

\* Every awaited call returns: the workflow's steps are taken when enabled.
FairSpec ==
    /\ Spec
    /\ WF_vars(CallModel)
    /\ WF_vars(ShouldContinue)
    /\ WF_vars(DispatchToolCall)
    /\ WF_vars(Finalize)

(***************************************************************************)
(* Properties of the turn                                                  *)
(***************************************************************************)
\* The messages of the running turn: the new user message and what follows.
TurnMessages == SubSeq(messages, hist_len + 1, Len(messages))

TurnAIIndexes == {i \in hist_len + 1..Len(messages) : messages[i].role = "ai"}

\* The tool call with a given id, as the model emitted it.
CallById(id) ==
    LET i == CHOOSE i \in TurnAIIndexes : id \in CallIds(messages[i])
        k == CHOOSE k \in 1..Len(messages[i].tool_calls) : messages[i].tool_calls[k].id = id
    IN  messages[i].tool_calls[k]

\* C1: every tool.arun of an identity-bound tool receives the user_id of the
\* turn's caller, whatever user_id the model wrote into the arguments.
C1_HandlerGetsCallerId ==
    \A i \in 1..Len(handler_calls) :
        handler_calls[i].name \in tools_needing_user_id
            => handler_calls[i].user_id = user_id

\* A handler ran for a call in which the model named another user.
C1_Witness ==
    \E i \in 1..Len(handler_calls) :
        /\ handler_calls[i].name \in tools_needing_user_id
        /\ CallById(handler_calls[i].id).args.user_id \in Users \ {user_id}

\* C2: a started turn ends, whatever the model answers, when every model call
\* and every tool call returns.
C2_TurnEnds == (pc \in {"call_model", "decide", "tools", "finalize"}) ~> (pc = "done")

\* A turn that ended only because of the cap: the model asked for a tool in
\* every cycle, the last assistant message included.
C2_Witness ==
    /\ pc = "done"
    /\ response.kind = "final"
    /\ \A i \in TurnAIIndexes : messages[i].tool_calls # <<>>
    /\ Cardinality(TurnAIIndexes) = MAX_AI_MESSAGES + 1

\* C3 (as claimed): in a finished turn in which every assistant message
\* carried exactly one tool call, there are 6 assistant messages of the turn
\* and tools_invoked has 5 entries; never are more than 5 cycles dispatched.
C3_CapAtSixthMessage ==
    /\ dispatch_cycles <= MAX_AI_MESSAGES
    /\ ( /\ pc = "done"
         /\ response.kind = "final"
         /\ \A i \in TurnAIIndexes : Len(messages[i].tool_calls) = 1 )
       => /\ Cardinality(TurnAIIndexes) = MAX_AI_MESSAGES + 1
          /\ Len(response.actions_taken) = MAX_AI_MESSAGES

\* C4 (as claimed): the tools node answers every tool call of the latest
\* assistant message with one tool message of that call's id, in order, no
\* call makes the turn fail, and the node hands over to call_model.
C4_EveryCallAnswered ==
    /\ response.kind # "error"
    /\ pc = "tools" =>
         /\ Len(tool_results) = tc_idx - 1
         /\ \A k \in 1..Len(tool_results) :
              /\ tool_results[k].role = "tool"
              /\ tool_results[k].tool_call_id = Last(messages).tool_calls[k].id
    /\ (pc = "call_model" /\ TurnAIIndexes # {}) =>
         LET i == CHOOSE i \in TurnAIIndexes : \A j \in TurnAIIndexes : j <= i
             calls == messages[i].tool_calls
         IN  /\ Len(messages) = i + Len(calls)
             /\ \A k \in 1..Len(calls) :
                  /\ messages[i + k].role = "tool"
                  /\ messages[i + k].tool_call_id = calls[k].id

\* The tool messages written so far in the turn, the running cycle included.
ToolMessagesSoFar ==
    SelectSeq(TurnMessages, LAMBDA m : m.role = "tool") \o tool_results

ReturnedToolMessages ==
    SelectSeq(ToolMessagesSoFar, LAMBDA m : m.status \in {"ok", "failed"})

\* C5: the result of a turn cut by the deadline has the fixed text and lists
\* every tool that returned before the deadline, every brick created and every
\* brick updated before it.
C5_TimeoutKeepsMetadata ==
    response.kind = "timeout" =>
        /\ response.response_text = TIMEOUT_TEXT
        /\ response.actions_taken =
             [k \in 1..Len(ReturnedToolMessages) |->
                 CallById(ReturnedToolMessages[k].tool_call_id).name]
        /\ response.bricks_created =
             [k \in 1..Len(SelectSeq(ReturnedToolMessages, LAMBDA m :
                     m.status = "ok" /\ CallById(m.tool_call_id).name = "create_brick")) |->
                 UuidEntry(SelectSeq(ReturnedToolMessages, LAMBDA m :
                     m.status = "ok" /\ CallById(m.tool_call_id).name = "create_brick")[k].tool_call_id)]
        /\ Len(response.bricks_updated) =
             Len(SelectSeq(ReturnedToolMessages, LAMBDA m :
                     m.status = "ok" /\ CallById(m.tool_call_id).name = "update_brick"))

\* The deadline fired after a create_brick and an update_brick had succeeded.
C5_Witness ==
    /\ response.kind = "timeout"
    /\ response.bricks_created # <<>>
    /\ response.bricks_updated # <<>>
    /\ Len(response.actions_taken) >= 2

\* C6 (as claimed): when the provider fails the first attempt and would answer
\* the second, the assistant message is the model's answer; a call of
\* generate_response makes up to 3 attempts.
C6_RetryRecovers ==
    (pc = "decide" /\ llm_script # <<>> /\ llm_script[1] = "fail" /\ llm_script[2] = "ok")
        => /\ Last(messages).content = llm_reply.content
           /\ llm_attempts = 2


\* C20: whatever history was loaded, the first assistant message of a turn is
\* routed by its tool calls alone: with at least one tool call the workflow
\* goes on to the tools node, with none it goes to the final response and no
\* tool has been used.
C20_FirstReplyRouted ==
    [][ ( /\ pc = "decide"
          /\ Cardinality(TurnAIIndexes) = 1
          /\ pc' \in {"tools", "finalize"} )
        => IF Last(messages).tool_calls # <<>>
           THEN pc' = "tools"
           ELSE pc' = "finalize" /\ tools_used' = <<>> ]_vars

(***************************************************************************)
(* ConflictDetector                                                        *)
(* services/calendar-integration/app/core/conflicts/detector.py            *)
(***************************************************************************)
MaxEvents == 2           \* length of the events list of one detect_conflicts call
MaxEngineCalls == 3      \* calls made on one ConflictDetector instance

\* An ISO-8601 timestamp string, by its fields; valid = FALSE is a string
\* datetime.fromisoformat rejects (or a missing field).
Timestamp(d, h, m) == [valid |-> TRUE, day |-> d, hour |-> h, minute |-> m]
BadTimestamp == [valid |-> FALSE, day |-> 0, hour |-> 0, minute |-> 0]

\* _parse_datetime, lines 433-441: the instant, in minutes; raises ValueError
\* (Parseable is FALSE) on anything else.
Parseable(ts) == ts.valid
parse_datetime(ts) == (ts.day * 24 + ts.hour) * 60 + ts.minute

\* timedelta.days of a difference given in minutes (floor, as Python does)
TimedeltaDays(minutes) == minutes \div 1440
Abs(n) == IF n < 0 THEN 0 - n ELSE n
Min2(x, y) == IF x <= y THEN x ELSE y
Max2(x, y) == IF x >= y THEN x ELSE y

Event(id, s, e, p, r) ==
    [id |-> id, start_time |-> s, end_time |-> e, priority |-> p, recurrence |-> r]

\* The events the calls draw from.  A and B are the pair of the documented
\* example; C starts when A starts; D starts when A ends; D and E recur.
EventA == Event("a", Timestamp(0, 10, 0), Timestamp(0, 11, 0), "medium", FALSE)
EventB == Event("b", Timestamp(0, 10, 30), Timestamp(0, 11, 30), "high", FALSE)
EventC == Event("c", Timestamp(0, 10, 0), Timestamp(0, 11, 0), "high", FALSE)
EventD == Event("d", Timestamp(0, 11, 0), Timestamp(0, 12, 0), "low", TRUE)
EventE == Event("e", Timestamp(0, 11, 30), Timestamp(0, 12, 30), "urgent", TRUE)
\* F has a start_time and G an end_time that datetime.fromisoformat rejects
EventF == Event("f", BadTimestamp, Timestamp(0, 11, 0), "medium", FALSE)
EventG == Event("g", Timestamp(0, 10, 0), BadTimestamp, "medium", FALSE)
EventPool == {EventA, EventB, EventC, EventD, EventE, EventF, EventG}

\* Python's order on the id strings
EventIds == <<"a", "b", "c", "d", "e", "f", "g">>
IdRank(id) == CHOOSE k \in 1..Len(EventIds) : EventIds[k] = id

\* a time window around the late morning
MorningWindow == [given |-> TRUE, start |-> parse_datetime(Timestamp(0, 10, 15)),
                  end |-> parse_datetime(Timestamp(0, 12, 0))]
Windows == {NoWindow, MorningWindow}

\* Lists of distinct events of the pool, up to MaxEvents long
EventLists ==
    {s \in SeqsUpTo(EventPool, MaxEvents) :
        \A i, j \in 1..Len(s) : i # j => s[i] # s[j]}

ResolutionStrategies ==
    {"keep_existing", "replace_with_new", "merge_events",
     "move_to_alternative_time", "split_event", "cancel_event", "user_decision"}

\* user_decision of resolve_conflict: None, or a dict naming what to keep
NoDecision == [given |-> FALSE, keep_events |-> <<>>, discard_events |-> <<>>]
UserDecisions ==
    {NoDecision, [given |-> TRUE, keep_events |-> <<>>, discard_events |-> <<>>]}

\* _get_event_priority, lines 429-431
get_event_priority(event) == event.priority

\* An overlap test that also counts two events that only touch
events_overlap_touching(event1, event2) ==
    IF /\ Parseable(event1.start_time) /\ Parseable(event1.end_time)
       /\ Parseable(event2.start_time) /\ Parseable(event2.end_time)
    THEN /\ parse_datetime(event1.start_time) <= parse_datetime(event2.end_time)
         /\ parse_datetime(event1.end_time) >= parse_datetime(event2.start_time)
    ELSE FALSE

\* _events_overlap, lines 225-237
events_overlap(event1, event2) ==
    IF /\ Parseable(event1.start_time) /\ Parseable(event1.end_time)
       /\ Parseable(event2.start_time) /\ Parseable(event2.end_time)
    THEN /\ parse_datetime(event1.start_time) < parse_datetime(event2.end_time)
         /\ parse_datetime(event1.end_time) > parse_datetime(event2.start_time)
    ELSE FALSE

\* _should_check_events, lines 239-260
should_check_events(event1, event2, window) ==
    IF Parseable(event1.start_time) /\ Parseable(event2.start_time)
    THEN LET start1 == parse_datetime(event1.start_time)
             start2 == parse_datetime(event2.start_time)
         IN  IF window.given
             THEN /\ window.start <= start1 /\ start1 <= window.end
                  /\ window.start <= start2 /\ start2 <= window.end
             ELSE Abs(TimedeltaDays(start1 - start2)) <= 1
    ELSE FALSE

\* sorted(ids) and "_".join(ids)
RECURSIVE SortedIds(_)
SortedIds(ids) ==
    IF Len(ids) = 0 THEN <<>>
    ELSE LET rest == SortedIds(Tail(ids))
             k == Cardinality({i \in 1..Len(rest) : IdRank(rest[i]) <= IdRank(Head(ids))})
         IN  SubSeq(rest, 1, k) \o <<Head(ids)>> \o SubSeq(rest, k + 1, Len(rest))

RECURSIVE JoinIds(_)
JoinIds(ids) ==
    IF Len(ids) = 0 THEN ""
    ELSE IF Len(ids) = 1 THEN ids[1]
    ELSE ids[1] \o "_" \o JoinIds(Tail(ids))

EventIdsOf(events) == [k \in 1..Len(events) |-> events[k].id]
Priorities(events) == {get_event_priority(events[k]) : k \in 1..Len(events)}

\* _calculate_overlap_severity, lines 369-381
calculate_overlap_severity(events) ==
    IF "urgent" \in Priorities(events) THEN "critical"
    ELSE IF "high" \in Priorities(events) THEN "high"
    ELSE IF Len(events) > 2 THEN "medium"
    ELSE "low"

\* _suggest_overlap_resolution, lines 404-417
suggest_overlap_resolution(events) ==
    IF "urgent" \in Priorities(events) \/ "high" \in Priorities(events)
    THEN "replace_with_new"
    ELSE IF Len(events) > 2 THEN "user_decision"
    ELSE "keep_existing"

RECURSIVE MaxStart(_)
MaxStart(events) ==
    IF Len(events) = 1 THEN parse_datetime(events[1].start_time)
    ELSE Max2(parse_datetime(events[1].start_time), MaxStart(Tail(events)))

RECURSIVE MinEnd(_)
MinEnd(events) ==
    IF Len(events) = 1 THEN parse_datetime(events[1].end_time)
    ELSE Min2(parse_datetime(events[1].end_time), MinEnd(Tail(events)))

\* _calculate_overlap_duration, lines 383-402
calculate_overlap_duration(events) ==
    IF Len(events) < 2 THEN 0
    ELSE IF \E k \in 1..Len(events) :
                ~Parseable(events[k].start_time) \/ ~Parseable(events[k].end_time)
    THEN 0
    ELSE IF MaxStart(events) < MinEnd(events)
    THEN MinEnd(events) - MaxStart(events)
    ELSE 0

\* _create_overlap_conflict, lines 262-296 (called with two events)
create_overlap_conflict(events) ==
    [conflict_id |-> "overlap_" \o JoinIds(SortedIds(EventIdsOf(events))),
     conflict_type |-> "time_overlap",
     severity |-> calculate_overlap_severity(events),
     events |-> events,
     suggested_resolution |-> suggest_overlap_resolution(events),
     metadata |-> [overlap_duration |-> calculate_overlap_duration(events),
                   event_count |-> Len(events)]]

\* _create_priority_conflict, lines 331-348
create_priority_conflict(events) ==
    [conflict_id |-> "priority_" \o JoinIds(EventIdsOf(events)),
     conflict_type |-> "priority_conflict",
     severity |-> "medium",
     events |-> events,
     suggested_resolution |-> "replace_with_new",
     metadata |-> [priority_difference |-> "high_vs_lower"]]

\* _create_recurring_conflict, lines 350-367
create_recurring_conflict(events) ==
    [conflict_id |-> "recurring_" \o JoinIds(EventIdsOf(events)),
     conflict_type |-> "recurring_conflict",
     severity |-> "high",
     events |-> events,
     suggested_resolution |-> "user_decision",
     metadata |-> [recurring_events |-> TRUE]]

\* _detect_priority_conflicts, lines 298-314
detect_priority_conflicts(event, existing_events) ==
    LET hits == SelectSeq(existing_events, LAMBDA existing_event :
                    /\ get_event_priority(event) = "high"
                    /\ get_event_priority(existing_event) \in {"low", "medium"}
                    /\ events_overlap(event, existing_event))
    IN  [k \in 1..Len(hits) |-> create_priority_conflict(<<event, hits[k]>>)]

\* _detect_recurring_conflicts, lines 316-329
detect_recurring_conflicts(event, existing_events) ==
    IF event.recurrence
    THEN LET hits == SelectSeq(existing_events, LAMBDA existing_event :
                         existing_event.recurrence /\ events_overlap(event, existing_event))
         IN  [k \in 1..Len(hits) |-> create_recurring_conflict(<<event, hits[k]>>)]
    ELSE <<>>

\* sorted(events, key=start): a stable sort, equal keys stay in input order
RECURSIVE SortedByStart(_)
SortedByStart(events) ==
    IF Len(events) = 0 THEN <<>>
    ELSE LET front == SortedByStart(SubSeq(events, 1, Len(events) - 1))
             e == events[Len(events)]
             k == Cardinality({i \in 1..Len(front) :
                     parse_datetime(front[i].start_time) <= parse_datetime(e.start_time)})
         IN  SubSeq(front, 1, k) \o <<e>> \o SubSeq(front, k + 1, Len(front))

\* detect_conflicts, lines 100-126: the conflicts found for sorted_events[i]
EventConflicts(sorted_events, i, window) ==
    LET event == sorted_events[i]
        processed_events == SubSeq(sorted_events, 1, i - 1)
        later_events == SubSeq(sorted_events, i + 1, Len(sorted_events))
        back == SelectSeq(processed_events, LAMBDA p : events_overlap(event, p))
        forth == SelectSeq(later_events, LAMBDA o :
                     should_check_events(event, o, window) /\ events_overlap(event, o))
    IN  [k \in 1..Len(back) |-> create_overlap_conflict(<<event, back[k]>>)]
        \o [k \in 1..Len(forth) |-> create_overlap_conflict(<<event, forth[k]>>)]
        \o detect_priority_conflicts(event, processed_events)
        \o detect_recurring_conflicts(event, processed_events)

\* detect_conflicts, lines 128-131: self.conflicts[conflict.conflict_id] = conflict
RECURSIVE StoreConflicts(_, _)
StoreConflicts(store, found) ==
    IF Len(found) = 0 THEN store
    ELSE StoreConflicts((found[1].conflict_id :> found[1]) @@ store, Tail(found))

\* detect_conflicts, lines 99-133: the loop over sorted_events from index i
RECURSIVE DetectLoop(_, _, _, _, _)
DetectLoop(store, sorted_events, window, i, found) ==
    IF i > Len(sorted_events)
    THEN [raised |-> FALSE, conflicts |-> found, store |-> store]
    ELSE LET event_conflicts == EventConflicts(sorted_events, i, window)
         IN  DetectLoop(StoreConflicts(store, event_conflicts), sorted_events,
                        window, i + 1, found \o event_conflicts)

\* A detect_conflicts that reports only conflicts the engine has not stored yet
detect_conflicts_unseen(store, events, window) ==
    LET run == DetectLoop(store, SortedByStart(events), window, 1, <<>>)
    IN  [run EXCEPT !.conflicts =
            SelectSeq(run.conflicts, LAMBDA c : c.conflict_id \notin DOMAIN store)]

\* detect_conflicts, lines 76-141.  The sort key raises ValueError on a start
\* time that does not parse; nothing is stored then.
detect_conflicts(store, events, window) ==
    IF \E k \in 1..Len(events) : ~Parseable(events[k].start_time)
    THEN [raised |-> TRUE, conflicts |-> <<>>, store |-> store]
    ELSE DetectLoop(store, SortedByStart(events), window, 1, <<>>)

RECURSIVE MinStartStamp(_)
MinStartStamp(events) ==
    IF Len(events) = 1 THEN events[1].start_time
    ELSE LET rest == MinStartStamp(Tail(events))
         IN  IF parse_datetime(events[1].start_time) <= parse_datetime(rest)
             THEN events[1].start_time ELSE rest

RECURSIVE MaxEndStamp(_)
MaxEndStamp(events) ==
    IF Len(events) = 1 THEN events[1].end_time
    ELSE LET rest == MaxEndStamp(Tail(events))
         IN  IF parse_datetime(events[1].end_time) >= parse_datetime(rest)
             THEN events[1].end_time ELSE rest

\* _merge_events, lines 491-515 (titles and descriptions are not modelled)
merge_events(events) ==
    [events[1] EXCEPT !.start_time = MinStartStamp(events),
                      !.end_time = MaxEndStamp(events)]

\* _apply_resolution_strategy, lines 443-489
apply_resolution_strategy(conflict, strategy, user_decision) ==
    LET evs == conflict.events
        kept == CASE strategy = "keep_existing" -> <<evs[1]>>
                  [] strategy = "replace_with_new" -> <<evs[Len(evs)]>>
                  [] strategy = "merge_events" -> <<merge_events(evs)>>
                  [] strategy = "user_decision" ->
                        IF user_decision.given THEN user_decision.keep_events ELSE evs
                  [] OTHER -> evs
        dropped == CASE strategy = "keep_existing" -> Tail(evs)
                     [] strategy = "replace_with_new" -> SubSeq(evs, 1, Len(evs) - 1)
                     [] strategy = "user_decision" ->
                        IF user_decision.given THEN user_decision.discard_events ELSE <<>>
                     [] OTHER -> <<>>
    IN  [conflict_id |-> conflict.conflict_id,
         strategy |-> strategy,
         resolved_events |-> kept,
         discarded_events |-> dropped]

\* Conflict ids a caller may name: every id detection can produce, and one
\* the engine never holds.
KnownIds == DOMAIN conflicts
NamedIds == KnownIds \cup {"overlap_x_y"}

\* detect_conflicts on the engine
Detect ==
    /\ Len(det_log) < MaxEngineCalls
    /\ \E events \in EventLists, window \in Windows :
          LET run == detect_conflicts(conflicts, events, window)
          IN  /\ det_input' = events
              /\ det_window' = window
              /\ det_result' = run.conflicts
              /\ det_raised' = run.raised
              /\ conflicts' = run.store
    /\ det_log' = Append(det_log, "detect")
    /\ UNCHANGED <<resolutions, auto_result, orchVars, planVars, extVars>>

\* resolve_conflict, lines 143-176
Resolve ==
    /\ Len(det_log) < MaxEngineCalls
    /\ \E conflict_id \in NamedIds, strategy \in ResolutionStrategies,
          user_decision \in UserDecisions :
          IF conflict_id \notin DOMAIN conflicts
          THEN /\ det_raised' = TRUE
               /\ UNCHANGED resolutions
          ELSE /\ det_raised' = FALSE
               /\ resolutions' =
                     (conflict_id :> apply_resolution_strategy(
                          conflicts[conflict_id], strategy, user_decision))
                     @@ resolutions
    /\ det_log' = Append(det_log, "resolve")
    /\ UNCHANGED <<conflicts, det_input, det_window, det_result, auto_result,
                   orchVars, planVars, extVars>>

\* A strategy taken from the rules dictionary: a str, which equals no member
\* of ResolutionStrategy and has no attribute value
PyStr(name) == "str:" \o name

\* _get_default_auto_resolution_rules, lines 535-552
DefaultRules ==
    [time_overlap       |-> [auto_resolve |-> TRUE, default_strategy |-> PyStr("keep_existing")],
     priority_conflict  |-> [auto_resolve |-> TRUE, default_strategy |-> PyStr("replace_with_new")],
     recurring_conflict |-> [auto_resolve |-> FALSE, default_strategy |-> "keep_existing"]]

NoStrategy == [given |-> FALSE, strategy |-> ""]

\* _determine_auto_resolution_strategy, lines 517-533
determine_auto_resolution_strategy(conflict, rules) ==
    IF conflict.severity = "low" THEN [given |-> TRUE, strategy |-> "keep_existing"]
    ELSE IF conflict.severity = "critical" THEN [given |-> TRUE, strategy |-> "user_decision"]
    ELSE IF rules[conflict.conflict_type].auto_resolve
    THEN [given |-> TRUE, strategy |-> rules[conflict.conflict_type].default_strategy]
    ELSE NoStrategy

\* auto_resolve_conflicts, lines 178-202, with resolve_conflict, lines 143-176,
\* inlined: the resolution is stored before strategy.value is read for the log
RECURSIVE AutoResolveLoop(_, _, _, _, _)
AutoResolveLoop(store, stored_resolutions, found, rules, out) ==
    IF Len(found) = 0
    THEN [raised |-> FALSE, resolutions |-> out, stored |-> stored_resolutions]
    ELSE LET conflict == Head(found)
             choice == determine_auto_resolution_strategy(conflict, rules)
         IN  IF ~choice.given
             THEN AutoResolveLoop(store, stored_resolutions, Tail(found), rules, out)
             ELSE IF conflict.conflict_id \notin DOMAIN store
             THEN [raised |-> TRUE, resolutions |-> <<>>, stored |-> stored_resolutions]
             ELSE LET resolution == apply_resolution_strategy(
                                        store[conflict.conflict_id], choice.strategy, NoDecision)
                      kept == (conflict.conflict_id :> resolution) @@ stored_resolutions
                  IN  IF choice.strategy \notin ResolutionStrategies
                      THEN [raised |-> TRUE, resolutions |-> <<>>, stored |-> kept]
                      ELSE AutoResolveLoop(store, kept, Tail(found), rules,
                                           Append(out, resolution))

auto_resolve_conflicts(store, stored_resolutions, found) ==
    AutoResolveLoop(store, stored_resolutions, found, DefaultRules, <<>>)

\* auto_resolve_conflicts on the list the last detect_conflicts call returned
AutoResolve ==
    /\ Len(det_log) < MaxEngineCalls
    /\ det_log # <<>>
    /\ Last(det_log) = "detect"
    /\ LET run == auto_resolve_conflicts(conflicts, resolutions, det_result)
       IN  /\ auto_result' = run.resolutions
           /\ det_raised' = run.raised
           /\ resolutions' = run.stored
    /\ det_log' = Append(det_log, "auto")
    /\ UNCHANGED <<conflicts, det_input, det_window, det_result, orchVars, planVars, extVars>>

DetectNext ==
    \/ Detect
    \/ Resolve
    \/ AutoResolve

DetectSpec == Init /\ [][DetectNext]_vars

(***************************************************************************)
(* Properties of conflict detection                                        *)
(***************************************************************************)
ConflictIds(found) == {found[k].conflict_id : k \in 1..Len(found)}

\* The orders a list can be given in
Reorderings(s) ==
    {t \in [1..Len(s) -> Range(s)] : \A e \in Range(s) : \E i \in 1..Len(s) : t[i] = e}

EmptyStore == <<>>

\* C8: detection is order-independent: every permutation of the events of
\* the last detect_conflicts call, given to a fresh engine, yields the same
\* set of conflict ids the call returned.
C8_OrderIndependent ==
    \A p \in Reorderings(det_input) :
        ConflictIds(detect_conflicts(EmptyStore, p, det_window).conflicts)
            = ConflictIds(det_result)

\* C9: detection is pure and idempotent: whatever detect_conflicts and
\* resolve_conflict calls the engine served before, the last detect_conflicts
\* call returned the ids a fresh engine returns for the same events.
C9_DetectIsPure ==
    ConflictIds(det_result)
        = ConflictIds(detect_conflicts(EmptyStore, det_input, det_window).conflicts)

\* A detect_conflicts call that found conflicts on an engine which had
\* already detected and resolved a conflict with the same id.
C9_Witness ==
    /\ det_log = <<"detect", "resolve", "detect">>
    /\ det_result # <<>>
    /\ \E id \in ConflictIds(det_result) : id \in DOMAIN resolutions

\* C10: each overlapping pair is reported once: no two conflicts of a
\* returned list share an id, and for the events A (10:00-11:00, medium) and
\* B (10:30-11:30, high) the list is exactly the one conflict overlap_a_b,
\* time_overlap, severity high, replace_with_new, overlap_duration 30.
C10_EachPairOnce ==
    /\ \A i, j \in 1..Len(det_result) :
          det_result[i].conflict_id = det_result[j].conflict_id => i = j
    /\ (Len(det_log) > 0 /\ det_input = <<EventA, EventB>> /\ ~det_window.given) =>
          /\ Len(det_result) = 1
          /\ det_result[1].conflict_id = "overlap_a_b"
          /\ det_result[1].conflict_type = "time_overlap"
          /\ det_result[1].severity = "high"
          /\ det_result[1].suggested_resolution = "replace_with_new"
          /\ det_result[1].metadata.overlap_duration = 30

\* The conflicts of a returned list that are about exactly the two events
ConflictsOfPair(found, e1, e2) ==
    {k \in 1..Len(found) :
        {found[k].events[n].id : n \in 1..Len(found[k].events)} = {e1.id, e2.id}}

\* both timestamps of the event parse
TimesParse(event) == Parseable(event.start_time) /\ Parseable(event.end_time)

\* the sort of detect_conflicts found a start time in every event, so the
\* call returned a list
CallReturned(events) == \A k \in 1..Len(events) : Parseable(events[k].start_time)

\* C11: two events of a detect_conflicts call that returns, where one ends
\* exactly when the other starts, yield no conflict of any kind; two events with
\* start_i < end_j and end_i > start_j whose starts are at most one day
\* apart yield a time_overlap conflict.
C11_BoundaryIsNoConflict ==
    \A i, j \in 1..Len(det_input) :
        LET ei == det_input[i]
            ej == det_input[j]
            start_i == parse_datetime(ei.start_time)
            end_i == parse_datetime(ei.end_time)
            start_j == parse_datetime(ej.start_time)
            end_j == parse_datetime(ej.end_time)
        IN  (i # j /\ CallReturned(det_input) /\ TimesParse(ei) /\ TimesParse(ej)) =>
              /\ end_i = start_j => ConflictsOfPair(det_result, ei, ej) = {}
              /\ (start_i < end_j /\ end_i > start_j /\ Abs(start_i - start_j) <= 1440) =>
                    \E k \in ConflictsOfPair(det_result, ei, ej) :
                        det_result[k].conflict_type = "time_overlap"

\* The engine found the overlap of A and B in one call and then returned
\* nothing for A (10:00-11:00) and D (11:00-12:00), which only touch.
C11_Witness ==
    /\ Len(det_log) > 1
    /\ Last(det_log) = "detect"
    /\ det_input = <<EventA, EventD>>
    /\ det_result = <<>>
    /\ "overlap_a_b" \in DOMAIN conflicts

\* C21: a resolution with keep_existing keeps the one event of the conflict
\* that starts first and discards the others; a resolution with
\* replace_with_new keeps the one that starts last and discards the others.
C21_KeepsEarliestOrLatest ==
    \A id \in DOMAIN resolutions :
        LET r == resolutions[id]
            StartOf(e) == parse_datetime(e.start_time)
        IN  /\ r.strategy = "keep_existing" =>
                 /\ Len(r.resolved_events) = 1
                 /\ \A k \in 1..Len(r.discarded_events) :
                       StartOf(r.resolved_events[1]) <= StartOf(r.discarded_events[k])
            /\ r.strategy = "replace_with_new" =>
                 /\ Len(r.resolved_events) = 1
                 /\ \A k \in 1..Len(r.discarded_events) :
                       StartOf(r.resolved_events[1]) >= StartOf(r.discarded_events[k])

\* C22: a priority conflict is reported for two events of a call exactly when
\* they overlap in time and one is high or urgent while the other is low or
\* medium, whichever starts first or comes first in the input.
C22_PriorityConflictIffRanksDiffer ==
    \A i, j \in 1..Len(det_input) :
        LET ei == det_input[i]
            ej == det_input[j]
        IN  (i # j /\ ~det_raised) =>
              ( (\E k \in ConflictsOfPair(det_result, ei, ej) :
                    det_result[k].conflict_type = "priority_conflict")
                <=> ( /\ events_overlap(ei, ej)
                      /\ \/ /\ get_event_priority(ei) \in {"high", "urgent"}
                            /\ get_event_priority(ej) \in {"low", "medium"}
                         \/ /\ get_event_priority(ej) \in {"high", "urgent"}
                            /\ get_event_priority(ei) \in {"low", "medium"} ) )

\* C23: with the default rules auto_resolve_conflicts does not fail and
\* returns, for each conflict of its input in order: keep_existing for a
\* low-severity conflict, user_decision with nothing discarded for a critical
\* one, keep_existing with one event kept for any other time_overlap,
\* replace_with_new for any other priority conflict, and nothing for a
\* recurring conflict.
ExpectedAutoStrategy(conflict) ==
    IF conflict.severity = "low" THEN "keep_existing"
    ELSE IF conflict.severity = "critical" THEN "user_decision"
    ELSE IF conflict.conflict_type = "time_overlap" THEN "keep_existing"
    ELSE IF conflict.conflict_type = "priority_conflict" THEN "replace_with_new"
    ELSE "none"

C23_AutoResolveByDefaultRules ==
    (det_log # <<>> /\ Last(det_log) = "auto") =>
        LET expected == SelectSeq(det_result, LAMBDA c : ExpectedAutoStrategy(c) # "none")
        IN  /\ ~det_raised
            /\ Len(auto_result) = Len(expected)
            /\ \A k \in 1..Len(expected) :
                  /\ k <= Len(auto_result)
                  /\ auto_result[k].conflict_id = expected[k].conflict_id
                  /\ auto_result[k].strategy = ExpectedAutoStrategy(expected[k])
                  /\ auto_result[k].strategy = "user_decision"
                        => auto_result[k].discarded_events = <<>>
                  /\ auto_result[k].strategy = "keep_existing"
                        => Len(auto_result[k].resolved_events) = 1

\* C24: a detect_conflicts call whose input holds an event with a start or
\* end timestamp that does not parse does not fail, and still reports a
\* time_overlap conflict for every two overlapping events among the others.
HasUnparseable(events) == \E k \in 1..Len(events) : ~TimesParse(events[k])

C24_UnparseableEventIsSkipped ==
    (det_log # <<>> /\ Last(det_log) = "detect" /\ HasUnparseable(det_input)) =>
        /\ ~det_raised
        /\ \A i, j \in 1..Len(det_input) :
              LET ei == det_input[i]
                  ej == det_input[j]
              IN  (i # j /\ TimesParse(ei) /\ TimesParse(ej) /\ events_overlap(ei, ej)) =>
                      \E k \in ConflictsOfPair(det_result, ei, ej) :
                          det_result[k].conflict_type = "time_overlap"

(***************************************************************************)
(* SimpleScheduler: the heuristic planner                                  *)
(* services/scheduler/app/solver/simple_scheduler.py                       *)
(*                                                                         *)
(* A datetime is a number of minutes since 00:00 of a Monday (day 0).      *)
(***************************************************************************)
MaxPlanEvents == 2       \* length of existing_events
MaxTasks == 2            \* length of tasks
MaxHorizonDays == 1      \* end_date - start_date, in days

DateTime(d, h, m) == (d * 24 + h) * 60 + m
Midnight(t) == (t \div 1440) * 1440       \* replace(hour=0, minute=0, ...)
Weekday(t) == (t \div 1440) % 7           \* datetime.weekday(): Monday is 0
HourOf(t) == (t % 1440) \div 60           \* datetime.hour

\* TimeSlot, lines 15-22
TimeSlot(start, end, is_available, event_id) ==
    [start |-> start, end |-> end, is_available |-> is_available, event_id |-> event_id]
FreeSlot(start, end) == TimeSlot(start, end, TRUE, "")

\* Task, lines 24-34; deadline is None or a datetime
NoDeadline == [given |-> FALSE, at |-> 0]
Deadline(t) == [given |-> TRUE, at |-> t]
Task(id, duration_minutes, priority, deadline) ==
    [id |-> id, duration_minutes |-> duration_minutes, priority |-> priority,
     deadline |-> deadline]

\* The calendars and task lists the planner is run on
ExistingEventPool ==
    {TimeSlot(DateTime(0, 10, 0), DateTime(0, 11, 0), FALSE, "e1"),
     TimeSlot(DateTime(0, 13, 0), DateTime(0, 14, 0), FALSE, "e2"),
     TimeSlot(DateTime(0, 10, 30), DateTime(0, 11, 30), FALSE, "e3"),
     TimeSlot(DateTime(4, 9, 0), DateTime(4, 16, 30), FALSE, "e4")}
ExistingEventLists ==
    {s \in SeqsUpTo(ExistingEventPool, MaxPlanEvents) :
        \A i, j \in 1..Len(s) : i # j => s[i] # s[j]}

TaskT1 == Task("T1", 90, 2, Deadline(DateTime(1, 8, 0)))
TaskT2 == Task("T2", 30, 8, NoDeadline)
TaskT3 == Task("T3", 120, 2, NoDeadline)
TaskT4 == Task("T4", 45, 5, Deadline(DateTime(0, 12, 0)))
TaskPool == {TaskT1, TaskT2, TaskT3, TaskT4}
TaskLists ==
    {s \in SeqsUpTo(TaskPool, MaxTasks) :
        \A i, j \in 1..Len(s) : i # j => s[i] # s[j]}

\* start_date: a Monday morning or a Friday afternoon
PlanStarts == {DateTime(0, 8, 0), DateTime(4, 14, 0)}

\* _subtract_existing_events, lines 189-198: the loop over existing_events,
\* taken in the order given
RECURSIVE SubtractEvents(_, _, _, _)
SubtractEvents(current_start, slot_end, events, result) ==
    IF Len(events) = 0
    THEN [current_start |-> current_start, result |-> result]
    ELSE LET event == Head(events)
         IN  IF event.start >= slot_end \/ event.end <= current_start
             THEN SubtractEvents(current_start, slot_end, Tail(events), result)
             ELSE SubtractEvents(
                      Max2(current_start, event.end), slot_end, Tail(events),
                      IF current_start < event.start
                      THEN Append(result, FreeSlot(current_start, event.start))
                      ELSE result)

\* _subtract_existing_events, lines 175-204
RECURSIVE subtract_existing_events(_, _)
subtract_existing_events(slots, existing_events) ==
    IF Len(slots) = 0 THEN <<>>
    ELSE LET slot == Head(slots)
             run == SubtractEvents(slot.start, slot.end, existing_events, <<>>)
         IN  (IF run.current_start < slot.end
              THEN Append(run.result, FreeSlot(run.current_start, slot.end))
              ELSE run.result)
             \o subtract_existing_events(Tail(slots), existing_events)

\* _add_breaks_and_lunch, lines 219-245: the while loop of one slot
RECURSIVE BreakLoop(_, _, _, _, _)
BreakLoop(current_time, slot_end, lunch_time, prefs, result) ==
    IF ~(current_time < slot_end) THEN result
    ELSE LET next_break == current_time + prefs.break_frequency
             work_end == Min2(next_break, slot_end)
         IN  IF current_time <= lunch_time /\ lunch_time <= work_end
             THEN BreakLoop(lunch_time + prefs.lunch_duration, slot_end, lunch_time, prefs,
                            IF current_time < lunch_time
                            THEN Append(result, FreeSlot(current_time, lunch_time))
                            ELSE result)
             ELSE BreakLoop(IF work_end < slot_end
                            THEN work_end + prefs.break_duration
                            ELSE work_end,
                            slot_end, lunch_time, prefs,
                            Append(result, FreeSlot(current_time, work_end)))

\* _add_breaks_and_lunch, lines 206-247
RECURSIVE add_breaks_and_lunch(_, _, _)
add_breaks_and_lunch(slots, date, prefs) ==
    IF Len(slots) = 0 THEN <<>>
    ELSE BreakLoop(Head(slots).start, Head(slots).end, date + prefs.lunch_time, prefs, <<>>)
         \o add_breaks_and_lunch(Tail(slots), date, prefs)

\* generate_available_slots, lines 72-98: the loop over the days
RECURSIVE DayLoop(_, _, _, _)
DayLoop(current_date, end_date, existing_events, prefs) ==
    IF ~(current_date <= end_date) THEN <<>>
    ELSE IF Weekday(current_date) >= 5
    THEN DayLoop(current_date + 1440, end_date, existing_events, prefs)
    ELSE LET work_slot == FreeSlot(current_date + prefs.work_start,
                                   current_date + prefs.work_end)
             available_periods ==
                 add_breaks_and_lunch(
                     subtract_existing_events(<<work_slot>>, existing_events),
                     current_date, prefs)
         IN  available_periods
             \o DayLoop(current_date + 1440, end_date, existing_events, prefs)

\* generate_available_slots, lines 58-100
generate_available_slots(start_date, end_date, existing_events, prefs) ==
    DayLoop(Midnight(start_date), end_date, existing_events, prefs)

\* schedule_tasks, lines 113-120: the sort key (priority, deadline or inf,
\* -duration_minutes) compared as Python compares tuples
TaskKeyLE(t1, t2) ==
    \/ t1.priority < t2.priority
    \/ /\ t1.priority = t2.priority
       /\ \/ t1.deadline.given /\ ~t2.deadline.given
          \/ t1.deadline.given /\ t2.deadline.given /\ t1.deadline.at < t2.deadline.at
          \/ /\ t1.deadline.given = t2.deadline.given
             /\ t1.deadline.given => t1.deadline.at = t2.deadline.at
             /\ t1.duration_minutes >= t2.duration_minutes

\* sorted(tasks, key=...): a stable sort
RECURSIVE SortedTasks(_)
SortedTasks(tasks) ==
    IF Len(tasks) = 0 THEN <<>>
    ELSE LET front == SortedTasks(SubSeq(tasks, 1, Len(tasks) - 1))
             t == tasks[Len(tasks)]
             k == Cardinality({i \in 1..Len(front) : TaskKeyLE(front[i], t)})
         IN  SubSeq(front, 1, k) \o <<t>> \o SubSeq(front, k + 1, Len(front))

\* _calculate_slot_fitness, lines 274-304, for a task without preferred_time.
\* The score is  num / den + bonus  with  100 / (1 + hours / 24) written as
\* 144000 / (1440 + minutes).
calculate_slot_fitness(task, slot) ==
    LET until_deadline == task.deadline.at - slot.start
        pressure == task.deadline.given /\ until_deadline > 0
        slot_duration == slot.end - slot.start
    IN  [num |-> IF pressure THEN 144000 ELSE 0,
         den |-> IF pressure THEN 1440 + until_deadline ELSE 1,
         bonus |-> (11 - task.priority) * 10
                   + (IF task.priority <= 3 /\ HourOf(slot.start) < 12 THEN 20 ELSE 0)
                   + (IF 2 * slot_duration > 3 * task.duration_minutes THEN 10 ELSE 0)]

\* score1 > score2, exactly
ScoreGreater(s1, s2) ==
    s1.num * s2.den - s2.num * s1.den > (s2.bonus - s1.bonus) * s1.den * s2.den

\* Mutant: of the slots with the highest score, the last one is taken.
find_last_best_slot(task, slots) ==
    LET suitable == SelectSeq(slots, LAMBDA slot :
                        slot.end - slot.start >= task.duration_minutes)
        best == CHOOSE i \in 1..Len(suitable) :
                  /\ \A j \in 1..Len(suitable) :
                        ~ScoreGreater(calculate_slot_fitness(task, suitable[j]),
                                      calculate_slot_fitness(task, suitable[i]))
                  /\ \A j \in (i + 1)..Len(suitable) :
                        ScoreGreater(calculate_slot_fitness(task, suitable[i]),
                                     calculate_slot_fitness(task, suitable[j]))
    IN  IF Len(suitable) = 0
        THEN [found |-> FALSE, slot |-> FreeSlot(0, 0)]
        ELSE [found |-> TRUE, slot |-> suitable[best]]

\* Mutant: only a slot longer than the task is suitable.
find_best_longer_slot(task, slots) ==
    LET suitable == SelectSeq(slots, LAMBDA slot :
                        slot.end - slot.start > task.duration_minutes)
        best == CHOOSE i \in 1..Len(suitable) :
                  /\ \A j \in 1..Len(suitable) :
                        ~ScoreGreater(calculate_slot_fitness(task, suitable[j]),
                                      calculate_slot_fitness(task, suitable[i]))
                  /\ \A j \in 1..(i - 1) :
                        ScoreGreater(calculate_slot_fitness(task, suitable[i]),
                                     calculate_slot_fitness(task, suitable[j]))
    IN  IF Len(suitable) = 0
        THEN [found |-> FALSE, slot |-> FreeSlot(0, 0)]
        ELSE [found |-> TRUE, slot |-> suitable[best]]

\* _find_best_slot_for_task, lines 249-272: max() keeps the first of equal scores
find_best_slot_for_task(task, slots) ==
    LET suitable == SelectSeq(slots, LAMBDA slot :
                        slot.end - slot.start >= task.duration_minutes)
        best == CHOOSE i \in 1..Len(suitable) :
                  /\ \A j \in 1..Len(suitable) :
                        ~ScoreGreater(calculate_slot_fitness(task, suitable[j]),
                                      calculate_slot_fitness(task, suitable[i]))
                  /\ \A j \in 1..(i - 1) :
                        ScoreGreater(calculate_slot_fitness(task, suitable[i]),
                                     calculate_slot_fitness(task, suitable[j]))
    IN  IF Len(suitable) = 0
        THEN [found |-> FALSE, slot |-> FreeSlot(0, 0)]
        ELSE [found |-> TRUE, slot |-> suitable[best]]

\* _remove_scheduled_time, lines 306-329
RECURSIVE remove_scheduled_time(_, _)
remove_scheduled_time(slots, scheduled_slot) ==
    IF Len(slots) = 0 THEN <<>>
    ELSE LET slot == Head(slots)
         IN  (IF scheduled_slot.end <= slot.start \/ scheduled_slot.start >= slot.end
              THEN <<slot>>
              ELSE (IF slot.start < scheduled_slot.start
                    THEN <<FreeSlot(slot.start, scheduled_slot.start)>> ELSE <<>>)
                   \o (IF slot.end > scheduled_slot.end
                       THEN <<FreeSlot(scheduled_slot.end, slot.end)>> ELSE <<>>))
             \o remove_scheduled_time(Tail(slots), scheduled_slot)

\* schedule_tasks, lines 125-143: the loop over sorted_tasks
RECURSIVE ScheduleLoop(_, _, _, _)
ScheduleLoop(sorted_tasks, slots, scheduled, unscheduled) ==
    IF Len(sorted_tasks) = 0
    THEN [scheduled_slots |-> scheduled, unscheduled_tasks |-> unscheduled,
          available_slots |-> slots]
    ELSE LET task == Head(sorted_tasks)
             best == find_best_slot_for_task(task, slots)
             task_slot == TimeSlot(best.slot.start,
                                   best.slot.start + task.duration_minutes,
                                   FALSE, task.id)
         IN  IF best.found
             THEN ScheduleLoop(Tail(sorted_tasks), remove_scheduled_time(slots, task_slot),
                               Append(scheduled, task_slot), unscheduled)
             ELSE ScheduleLoop(Tail(sorted_tasks), slots, scheduled,
                               Append(unscheduled, task))

\* schedule_tasks, lines 102-145
schedule_tasks(tasks, slots) == ScheduleLoop(SortedTasks(tasks), slots, <<>>, <<>>)

\* generate_available_slots on a date range and a calendar
GenerateSlots ==
    /\ plan_stage = "init"
    /\ \E start_date \in PlanStarts, horizon \in 0..MaxHorizonDays,
          existing_events \in ExistingEventLists :
          /\ plan_range' = [start_date |-> start_date,
                            end_date |-> start_date + horizon * 1440]
          /\ plan_events' = existing_events
          /\ available_slots' =
                generate_available_slots(start_date, start_date + horizon * 1440,
                                         existing_events, preferences)
    /\ plan_stage' = "slots"
    /\ UNCHANGED <<preferences, plan_tasks, scheduled_slots, unscheduled_tasks,
                   orchVars, detVars, extVars>>

\* schedule_tasks on the slots generate_available_slots returned
ScheduleTasks ==
    /\ plan_stage = "slots"
    /\ \E tasks \in TaskLists :
          LET run == schedule_tasks(tasks, available_slots)
          IN  /\ plan_tasks' = tasks
              /\ scheduled_slots' = run.scheduled_slots
              /\ unscheduled_tasks' = run.unscheduled_tasks
    /\ plan_stage' = "scheduled"
    /\ UNCHANGED <<preferences, plan_range, plan_events, available_slots,
                   orchVars, detVars, extVars>>

PlanNext ==
    \/ GenerateSlots
    \/ ScheduleTasks

PlanSpec == Init /\ [][PlanNext]_vars

(***************************************************************************)
(* Properties of the heuristic planner                                     *)
(***************************************************************************)
SlotsOverlap(s1, s2) == s1.start < s2.end /\ s2.start < s1.end

\* C7: for every output of the planner, with the existing events given in
\* any order: no two scheduled tasks overlap, no scheduled task overlaps an
\* existing event, and every scheduled task ends after it starts.
C7_NoOverlaps ==
    plan_stage = "scheduled" =>
        /\ \A i, j \in 1..Len(scheduled_slots) :
              i # j => ~SlotsOverlap(scheduled_slots[i], scheduled_slots[j])
        /\ \A i \in 1..Len(scheduled_slots), k \in 1..Len(plan_events) :
              ~SlotsOverlap(scheduled_slots[i], plan_events[k])
        /\ \A i \in 1..Len(scheduled_slots) :
              scheduled_slots[i].end > scheduled_slots[i].start

\* The order in which tasks are considered: priority ascending, then deadline
\* ascending with no deadline last, then duration descending.
ConsideredBefore(t1, t2) ==
    \/ t1.priority < t2.priority
    \/ /\ t1.priority = t2.priority
       /\ \/ t1.deadline.given /\ ~t2.deadline.given
          \/ t1.deadline.given /\ t2.deadline.given /\ t1.deadline.at < t2.deadline.at
          \/ /\ t1.deadline = t2.deadline
             /\ t1.duration_minutes > t2.duration_minutes

TaskOfSlot(slot) == CHOOSE k \in 1..Len(plan_tasks) : plan_tasks[k].id = slot.event_id

RECURSIVE RemoveAll(_, _)
RemoveAll(slots, placed) ==
    IF Len(placed) = 0 THEN slots
    ELSE RemoveAll(remove_scheduled_time(slots, Head(placed)), Tail(placed))

\* The slots that were free when the task of scheduled_slots[k] was placed
FreeBefore(k) == RemoveAll(available_slots, SubSeq(scheduled_slots, 1, k - 1))

\* C16: tasks are considered in the order (priority, deadline with none last,
\* longer first); each scheduled task starts at the start of a slot of the
\* highest fitness among the slots it fits in, the earliest-starting one of
\* equal fitness; T1 (90 min, high priority, deadline in one day) and
\* T2 (30 min, low priority) on an empty Monday are placed at 09:00-10:30 and
\* 10:45-11:15 and nothing is left unscheduled.
C16_GreedyPlacement ==
    plan_stage = "scheduled" =>
        /\ \A i, j \in 1..Len(scheduled_slots) :
              i < j => ConsideredBefore(plan_tasks[TaskOfSlot(scheduled_slots[i])],
                                        plan_tasks[TaskOfSlot(scheduled_slots[j])])
        /\ \A i, j \in 1..Len(unscheduled_tasks) :
              i < j => ConsideredBefore(unscheduled_tasks[i], unscheduled_tasks[j])
        /\ \A k \in 1..Len(scheduled_slots) :
              LET placed == scheduled_slots[k]
                  task == plan_tasks[TaskOfSlot(placed)]
                  free == FreeBefore(k)
                  Fits(s) == s.end - s.start >= task.duration_minutes
              IN  /\ placed.end = placed.start + task.duration_minutes
                  /\ \E i \in 1..Len(free) :
                        /\ Fits(free[i])
                        /\ placed.start = free[i].start
                        /\ \A j \in 1..Len(free) :
                              Fits(free[j]) =>
                                 /\ ~ScoreGreater(calculate_slot_fitness(task, free[j]),
                                                  calculate_slot_fitness(task, free[i]))
                                 /\ ScoreGreater(calculate_slot_fitness(task, free[i]),
                                                 calculate_slot_fitness(task, free[j]))
                                    \/ free[i].start <= free[j].start
        /\ ( /\ plan_tasks \in {<<TaskT1, TaskT2>>, <<TaskT2, TaskT1>>}
             /\ plan_events = <<>>
             /\ plan_range = [start_date |-> DateTime(0, 8, 0), end_date |-> DateTime(0, 8, 0)] )
           => /\ scheduled_slots =
                    <<TimeSlot(DateTime(0, 9, 0), DateTime(0, 10, 30), FALSE, "T1"),
                      TimeSlot(DateTime(0, 10, 45), DateTime(0, 11, 15), FALSE, "T2")>>
              /\ unscheduled_tasks = <<>>

\* T2 was given first: it is considered after T1 and, all free slots scoring
\* alike for it, takes the earliest.
C16_Witness ==
    /\ plan_stage = "scheduled"
    /\ plan_tasks = <<TaskT2, TaskT1>>
    /\ plan_events = <<>>
    /\ plan_range = [start_date |-> DateTime(0, 8, 0), end_date |-> DateTime(0, 8, 0)]
    /\ Len(scheduled_slots) = 2
    /\ scheduled_slots[2].event_id = "T2"
    /\ scheduled_slots[2].start = DateTime(0, 10, 45)

\* C28: every task the planner scheduled starts no earlier than the planning
\* start, ends no later than the planning end (start + horizon days), and lies
\* within [work_start, work_end] of one weekday.
C28_InsidePlanningRange ==
    plan_stage = "scheduled" =>
        \A k \in 1..Len(scheduled_slots) :
            LET placed == scheduled_slots[k]
                day == Midnight(placed.start)
            IN  /\ placed.start >= plan_range.start_date
                /\ placed.end <= plan_range.end_date
                /\ Weekday(placed.start) < 5
                /\ placed.start >= day + preferences.work_start
                /\ placed.end <= day + preferences.work_end

\* The tasks in the order schedule_tasks considers them, and the slots that
\* were free when it considered the p-th of them
ConsideredTasks == SortedTasks(plan_tasks)
FreeWhenConsidered(p) ==
    RemoveAll(available_slots,
              SelectSeq(scheduled_slots, LAMBDA placed :
                  \E q \in 1..(p - 1) : ConsideredTasks[q].id = placed.event_id))

\* C29: schedule_tasks partitions its input: every input task is either the
\* task of exactly one scheduled slot or exactly once in the unscheduled list,
\* never both and never neither; and a task is unscheduled exactly when, at
\* the moment it is considered, no free slot is at least as long as the task.
C29_TasksPartitioned ==
    plan_stage = "scheduled" =>
        /\ Len(scheduled_slots) + Len(unscheduled_tasks) = Len(plan_tasks)
        /\ \A k \in 1..Len(plan_tasks) :
              Cardinality({i \in 1..Len(scheduled_slots) :
                              scheduled_slots[i].event_id = plan_tasks[k].id})
              + Cardinality({i \in 1..Len(unscheduled_tasks) :
                              unscheduled_tasks[i] = plan_tasks[k]}) = 1
        /\ \A p \in 1..Len(ConsideredTasks) :
              LET task == ConsideredTasks[p]
                  free == FreeWhenConsidered(p)
              IN  (\E i \in 1..Len(unscheduled_tasks) : unscheduled_tasks[i] = task)
                  <=> ~\E i \in 1..Len(free) :
                          free[i].end - free[i].start >= task.duration_minutes

\* On a Friday taken up to 16:30 by a meeting, T2 (30 minutes) is placed and
\* T3 (120 minutes) is left unscheduled.
C29_Witness ==
    /\ plan_stage = "scheduled"
    /\ plan_tasks = <<TaskT3, TaskT2>>
    /\ Len(scheduled_slots) = 1
    /\ scheduled_slots[1].event_id = "T2"
    /\ unscheduled_tasks = <<TaskT3>>

(***************************************************************************)
(* Brick tools: delete_brick and delete_quanta                             *)
(* services/orchestrator/app/tools/brick_management_tools.py               *)
(***************************************************************************)
BrickIds == {"b1", "b2", "b3"}          \* b3 names no row
QuantaIds == {"q1", "q2", "q3"}

\* What one request to the database does: it is executed, or execute() raises
RequestOutcomes == {"ok", "raises"}

\* supabase.table('quantas').delete().eq('brick_id', brick_id), line 501
QuantasOfBrick(rows, brick_id) == {q \in rows : q.brick_id = brick_id}

\* supabase.table('bricks').delete().eq('id', brick_id).eq('user_id', user_id), line 505
BricksMatching(rows, brick_id, uid) == {b \in rows : b.id = brick_id /\ b.user_id = uid}

\* DeleteBrickTool._arun, lines 490-521, on the tables (bricks, quantas):
\* the tables it leaves and the text it returns.
delete_brick(bricks, quantas, brick_id, uid, delete_quantas, quantas_request, bricks_request) ==
    LET quantas_after ==
            IF delete_quantas /\ quantas_request = "ok"
            THEN quantas \ QuantasOfBrick(quantas, brick_id)
            ELSE quantas
        deleted == BricksMatching(bricks, brick_id, uid)
    IN  IF delete_quantas /\ quantas_request = "raises"
        THEN [bricks |-> bricks, quantas |-> quantas, result |-> "Error deleting Brick"]
        ELSE IF bricks_request = "raises"
        THEN [bricks |-> bricks, quantas |-> quantas_after, result |-> "Error deleting Brick"]
        ELSE IF deleted # {}
        THEN [bricks |-> bricks \ deleted, quantas |-> quantas_after,
              result |-> "Successfully deleted Brick"]
        ELSE [bricks |-> bricks, quantas |-> quantas_after,
              result |-> "Failed to delete Brick (not found or access denied)"]

\* DeleteQuantaTool._arun, lines 543-565
delete_quanta(quantas, quanta_id, request) ==
    LET deleted == {q \in quantas : q.id = quanta_id}
    IN  IF request = "raises"
        THEN [quantas |-> quantas, result |-> "Error deleting Quanta"]
        ELSE IF deleted # {}
        THEN [quantas |-> quantas \ deleted, result |-> "Successfully deleted Quanta"]
        ELSE [quantas |-> quantas, result |-> "Failed to delete Quanta (not found)"]

\* The delete_brick tool, called for user uid (custom_tool_node fills user_id in)
DeleteBrick ==
    /\ \E brick_id \in BrickIds, uid \in Users, delete_quantas \in BOOLEAN,
          quantas_request \in RequestOutcomes, bricks_request \in RequestOutcomes :
          LET run == delete_brick(db_bricks, db_quantas, brick_id, uid, delete_quantas,
                                  quantas_request, bricks_request)
          IN  /\ db_bricks' = run.bricks
              /\ db_quantas' = run.quantas
              /\ tool_call' = [tool |-> "delete_brick", brick_id |-> brick_id,
                               user_id |-> uid, delete_quantas |-> delete_quantas,
                               bricks_before |-> db_bricks, quantas_before |-> db_quantas,
                               result |-> run.result]
    /\ UNCHANGED <<orchVars, detVars, planVars, convVars, moreVars>>

\* The delete_quanta tool
DeleteQuanta ==
    /\ \E quanta_id \in QuantaIds, request \in RequestOutcomes :
          LET run == delete_quanta(db_quantas, quanta_id, request)
          IN  /\ db_quantas' = run.quantas
              /\ tool_call' = [tool |-> "delete_quanta", quanta_id |-> quanta_id,
                               bricks_before |-> db_bricks, quantas_before |-> db_quantas,
                               result |-> run.result]
    /\ UNCHANGED <<db_bricks, orchVars, detVars, planVars, convVars, moreVars>>

BrickNext ==
    \/ DeleteBrick
    \/ DeleteQuanta

BrickSpec == Init /\ [][BrickNext]_vars

(***************************************************************************)
(* Properties of the brick tools                                           *)
(***************************************************************************)
\* C12: delete_brick with cascade is atomic for the caller: after the call
\* either the brick and all of its quantas are gone, or the brick and all of
\* its quantas are as they were before the call.
C12_CascadeIsAtomic ==
    (tool_call.tool = "delete_brick" /\ tool_call.delete_quantas) =>
        LET b == tool_call.brick_id
            all_removed == /\ \A r \in db_bricks : r.id # b
                           /\ QuantasOfBrick(db_quantas, b) = {}
            unchanged == /\ {r \in db_bricks : r.id = b}
                              = {r \in tool_call.bricks_before : r.id = b}
                         /\ QuantasOfBrick(db_quantas, b)
                              = QuantasOfBrick(tool_call.quantas_before, b)
        IN  all_removed \/ unchanged

(***************************************************************************)
(* Concurrent turns on the one OrchestratorAgent                           *)
(* services/orchestrator/app/agent/orchestrator_agent.py                   *)
(*                                                                         *)
(* process_user_message is a coroutine of the one global agent.  It runs   *)
(* without suspending until the workflow awaits the model; the database    *)
(* call of _load_conversation_history is synchronous.  The compiled        *)
(* workflow keeps, per thread_id, the state of the last step in the        *)
(* MemorySaver, and the messages channel appends (add_messages).           *)
(***************************************************************************)
MaxTurns == 2            \* turns started on the agent

\* The text of the n-th user message and of the model's final answer to it
UserTexts == <<"m1", "m2", "m3", "m4", "m5">>
AnswerTexts == <<"a1", "a2", "a3", "a4", "a5">>

\* _load_conversation_history, lines 957-1003, and process_user_message,
\* lines 872-881: the rows of the conversation as messages
RECURSIVE load_conversation_history(_, _)
load_conversation_history(table, conversation_id) ==
    IF table = <<>> THEN <<>>
    ELSE (IF table[1].conversation_id = conversation_id
          THEN <<HumanMessage(table[1].content)>>
               \o (IF table[1].response # ""
                   THEN <<AIMessage(table[1].response, <<>>)>> ELSE <<>>)
          ELSE <<>>)
         \o load_conversation_history(Tail(table), conversation_id)

ActiveRequest(q) == q.pc \in {"model", "tools"}

FinishedTurn(q, text) ==
    [conversation_id |-> q.conversation_id, no |-> q.no,
     user_message |-> UserTexts[q.no], response_text |-> text]

\* process_user_message, lines 863-903: up to the first await of the workflow.
\* The input is added to the thread's checkpointed messages.
BeginTurn(r) ==
    /\ reqs[r].pc \in {"idle", "done"}
    /\ turn_count < MaxTurns
    /\ \E conversation_id \in ConversationIds :
          LET n == turn_count + 1
              history_messages ==
                  load_conversation_history(msg_table, conversation_id)
                  \o <<HumanMessage(UserTexts[n])>>
              state == checkpoints[conversation_id] \o history_messages
          IN  /\ checkpoints' = [checkpoints EXCEPT ![conversation_id] = state]
              /\ reqs' = [reqs EXCEPT ![r] =
                            [pc |-> "model", conversation_id |-> conversation_id,
                             no |-> n, working |-> state,
                             prior |-> {f \in finished :
                                           f.conversation_id = conversation_id},
                             response_text |-> ""]]
              /\ turn_count' = n
    /\ UNCHANGED <<msg_table, finished, orchVars, detVars, planVars, brickVars, moreVars>>

\* _call_model returns and _should_continue routes, lines 315-427; when the
\* graph ends, lines 918-941 build the response from the last message.
ModelReturns(r) ==
    /\ reqs[r].pc = "model"
    /\ \E calls \in {<<>>, <<PlainCall>>} :
          LET q == reqs[r]
              reply == IF calls = <<>>
                       THEN AIMessage(AnswerTexts[q.no], <<>>)
                       ELSE AIMessage("", WithIds(calls, Len(q.working)))
              state == Append(q.working, reply)
          IN  /\ checkpoints' = [checkpoints EXCEPT ![q.conversation_id] = state]
              /\ IF should_continue(state) = "tools"
                 THEN /\ reqs' = [reqs EXCEPT ![r].pc = "tools", ![r].working = state]
                      /\ UNCHANGED finished
                 ELSE /\ reqs' = [reqs EXCEPT ![r].pc = "done", ![r].working = state,
                                              ![r].response_text = reply.content]
                      /\ finished' = finished \cup {FinishedTurn(q, reply.content)}
    /\ UNCHANGED <<msg_table, turn_count, orchVars, detVars, planVars, brickVars, moreVars>>

\* custom_tool_node returns, lines 237-311
ToolsReturn(r) ==
    /\ reqs[r].pc = "tools"
    /\ LET q == reqs[r]
           state == q.working
                    \o [k \in 1..Len(Last(q.working).tool_calls) |->
                           ToolMessage(Last(q.working).tool_calls[k].id, "success")]
       IN  /\ checkpoints' = [checkpoints EXCEPT ![q.conversation_id] = state]
           /\ reqs' = [reqs EXCEPT ![r].pc = "model", ![r].working = state]
    /\ UNCHANGED <<msg_table, finished, turn_count, orchVars, detVars, planVars, brickVars, moreVars>>

\* asyncio.wait_for gives up, lines 907-916: the response is built outside
\* the workflow
RequestTimeout(r) ==
    /\ ActiveRequest(reqs[r])
    /\ reqs' = [reqs EXCEPT ![r].pc = "done", ![r].response_text = TIMEOUT_TEXT]
    /\ finished' = finished \cup {FinishedTurn(reqs[r], TIMEOUT_TEXT)}
    /\ UNCHANGED <<msg_table, checkpoints, turn_count, orchVars, detVars, planVars, brickVars, moreVars>>

ConvNext ==
    \/ \E r \in Requests : BeginTurn(r)
    \/ \E r \in Requests : ModelReturns(r)
    \/ \E r \in Requests : ToolsReturn(r)
    \/ \E r \in Requests : RequestTimeout(r)

ConvSpec == Init /\ [][ConvNext]_vars

(***************************************************************************)
(* Properties of concurrent turns                                          *)
(***************************************************************************)
\* C13: turns of one conversation are serialized: no two requests with the
\* same conversation_id are past their start and not yet finished at once.
C13_TurnsSerialized ==
    \A r1, r2 \in Requests :
        (r1 # r2 /\ ActiveRequest(reqs[r1]) /\ ActiveRequest(reqs[r2]))
            => reqs[r1].conversation_id # reqs[r2].conversation_id


HasContent(msgs, role, text) ==
    \E k \in 1..Len(msgs) : msgs[k].role = role /\ msgs[k].content = text

\* C14: the working state of a turn holds the user message and the response
\* of every turn of its conversation that had returned before it began.
C14_EarlierTurnsAreLoaded ==
    \A r \in Requests :
        reqs[r].pc # "idle"
            => \A f \in reqs[r].prior :
                  /\ HasContent(reqs[r].working, "human", f.user_message)
                  /\ HasContent(reqs[r].working, "ai", f.response_text)

ConvTypeOK == turn_count \in 0..(MaxTurns + 1)


(***************************************************************************)
(* Properties of the metadata of a turn's result                           *)
(***************************************************************************)
\* The tool messages of the create_brick calls that returned the success text
SucceededCreates ==
    SelectSeq(ToolMessagesSoFar, LAMBDA m :
        m.status = "ok" /\ CallById(m.tool_call_id).name = "create_brick")

\* C15: bricks_created of a turn's result holds the id returned by each
\* create_brick call that succeeded in the turn, and nothing for a failed one.
C15_CreatedBricksReported ==
    response.kind # "none" =>
        response.bricks_created =
            [k \in 1..Len(SucceededCreates) |-> UuidEntry(SucceededCreates[k].tool_call_id)]

\* The names of the tools whose call returned a text in the turn, and of
\* those called at all
ReturnedOkTools ==
    {CallById(ToolMessagesSoFar[k].tool_call_id).name :
        k \in {n \in 1..Len(ToolMessagesSoFar) : ToolMessagesSoFar[n].status = "ok"}}
InvokedTools ==
    UNION {{messages[i].tool_calls[k].name : k \in 1..Len(messages[i].tool_calls)} :
              i \in TurnAIIndexes}

\* C26: a turn in which get_schedule is the only tool invoked ends with
\* schedule_updated = false, and a turn that completes after optimize_schedule
\* (or generate_schedule) returned successfully ends with
\* schedule_updated = true.
C26_ScheduleUpdatedFlag ==
    response.kind # "none" =>
        /\ InvokedTools = {"get_schedule"} => ~response.schedule_updated
        /\ (response.kind = "final"
               /\ ReturnedOkTools \cap {"optimize_schedule", "generate_schedule"} # {})
              => response.schedule_updated


(***************************************************************************)
(* The planner's LLM client                                                *)
(* services/scheduler/app/llm/openrouter_client.py                         *)
(***************************************************************************)
MaxReplyLen == 3         \* characters of the model's reply

FALLBACK_TASK_LIMIT == 5         \* context.tasks_to_schedule[:5]
FALLBACK_BUFFER == 15            \* timedelta(minutes=15)
FALLBACK_DAY_START == 9          \* replace(hour=9, minute=0)
FALLBACK_DAY_END == 17           \* current_slot.hour >= 17
PLANNING_HORIZON_DAYS == 7        \* SchedulingContext.planning_horizon_days

\* A confidence score as a fraction
Score(num, den) == [num |-> num, den |-> den]
FALLBACK_CONFIDENCE == Score(3, 10)      \* confidence_score=0.3
DEFAULT_CONFIDENCE == Score(5, 10)       \* parsed.get("confidence_score", 0.5)
REPLY_CONFIDENCE == Score(85, 100)       \* a score the model states

\* SchedulingResult, lines 31-38
SchedulingResult(scheduled_events, reasoning, confidence_score, warnings) ==
    [scheduled_events |-> scheduled_events, reasoning |-> reasoning,
     confidence_score |-> confidence_score, warnings |-> warnings]

\* The reply of the model, character by character.  "{" and "}" are braces,
\* "a" is any other text, and three characters stand for one member of a JSON
\* object each:  "s" for  "confidence_score": 0.85,  "c" for
\* "confidence_score": "high"  and  "e" for  "scheduled_events": null.
\* Three more stand for a member  "scheduled_events": [event]  each:  "u" with
\* the event of a task nobody asked for, "z" with an event that ends when it
\* starts, "o" with an event during the fixed appointment of the calendar.
ReplyAlphabet == {"{", "}", "a", "s", "c", "e", "u", "z", "o"}
EventMembers == {"u", "z", "o"}

\* a scheduled event as the reply and the fallback give it
ScheduledEvent(task_id, start_time, end_time) ==
    [task_id |-> task_id, start_time |-> start_time, end_time |-> end_time]

\* EventInput, main.py lines 41-47: the one appointment of the request
FixedAppointment ==
    [id |-> "e1", start_time |-> DateTime(0, 10, 0), end_time |-> DateTime(0, 11, 0),
     is_moveable |-> FALSE]

\* json.loads of an event member: the list it holds
EventsOfMember(member) ==
    CASE member = "u" -> <<ScheduledEvent("T9", DateTime(0, 14, 0), DateTime(0, 15, 0))>>
      [] member = "z" -> <<ScheduledEvent("T1", DateTime(0, 14, 0), DateTime(0, 14, 0))>>
      [] member = "o" -> <<ScheduledEvent("T1", DateTime(0, 10, 30), DateTime(0, 11, 30))>>
      [] OTHER -> <<>>
ReplyContents == SeqsUpTo(ReplyAlphabet, MaxReplyLen)

\* What the provider call does: raises, or returns a message whose content is
\* None or a text
ProviderOutcomes ==
    {[kind |-> "raises"], [kind |-> "none"]}
    \cup {[kind |-> "text", content |-> c] : c \in ReplyContents}

\* str.find("{") and str.rfind("}"): 0-based index, -1 when absent
Find(content, ch) ==
    IF \E i \in 1..Len(content) : content[i] = ch
    THEN (CHOOSE i \in 1..Len(content) :
             content[i] = ch /\ \A j \in 1..(i - 1) : content[j] # ch) - 1
    ELSE -1
RFind(content, ch) ==
    IF \E i \in 1..Len(content) : content[i] = ch
    THEN (CHOOSE i \in 1..Len(content) :
             content[i] = ch /\ \A j \in (i + 1)..Len(content) : content[j] # ch) - 1
    ELSE -1

\* content[start:end] with 0 <= start
Slice(content, start, end) ==
    IF end <= start THEN <<>> ELSE SubSeq(content, start + 1, Min2(end, Len(content)))

\* json.loads: the texts of this alphabet that are a JSON object
IsJsonObject(json_str) ==
    \/ json_str = <<"{", "}">>
    \/ /\ Len(json_str) = 3
       /\ json_str[1] = "{"
       /\ json_str[2] \in {"s", "c", "e"} \cup EventMembers
       /\ json_str[3] = "}"

\* _parse_scheduling_response, lines 188-214: the result, or raised = TRUE
\* for the ValueError
parse_scheduling_response(reply) ==
    IF reply.kind = "none" THEN [raised |-> TRUE]
    ELSE LET content == reply.content
             start_json == Find(content, "{")
             end_json == RFind(content, "}") + 1
             json_str == Slice(content, start_json, end_json)
         IN  IF start_json = -1 \/ end_json = 0 THEN [raised |-> TRUE]
             ELSE IF ~IsJsonObject(json_str) THEN [raised |-> TRUE]
             ELSE IF Len(json_str) = 3 /\ json_str[2] = "c" THEN [raised |-> TRUE]
             ELSE [raised |-> FALSE,
                   value |-> SchedulingResult(
                       IF Len(json_str) = 3 /\ json_str[2] = "e" THEN "null"
                       ELSE IF Len(json_str) = 3 THEN EventsOfMember(json_str[2])
                       ELSE <<>>,
                       "",
                       IF Len(json_str) = 3 /\ json_str[2] = "s"
                       THEN REPLY_CONFIDENCE ELSE DEFAULT_CONFIDENCE,
                       <<>>)]

\* _create_fallback_schedule, lines 226-230: the first work day's 09:00
RECURSIVE SkipWeekend(_)
SkipWeekend(current_time) ==
    IF Weekday(current_time) >= 5 THEN SkipWeekend(current_time + 1440)
    ELSE current_time

\* _create_fallback_schedule, lines 232-254: the loop over the tasks
RECURSIVE FallbackLoop(_, _, _)
FallbackLoop(tasks, current_slot, scheduled_events) ==
    IF Len(tasks) = 0 THEN scheduled_events
    ELSE LET task == Head(tasks)
             next_day == Midnight(current_slot + 1440) + FALLBACK_DAY_START * 60
             slot == IF HourOf(current_slot) >= FALLBACK_DAY_END
                     THEN (IF Weekday(next_day) >= 5 THEN next_day + 2880 ELSE next_day)
                     ELSE current_slot
             end_time == slot + task.duration_minutes
         IN  FallbackLoop(Tail(tasks), end_time + FALLBACK_BUFFER,
                          Append(scheduled_events, ScheduledEvent(task.id, slot, end_time)))

\* _create_fallback_schedule, lines 216-261
create_fallback_schedule(context) ==
    SchedulingResult(
        FallbackLoop(SubSeq(context.tasks_to_schedule, 1,
                            Min2(FALLBACK_TASK_LIMIT, Len(context.tasks_to_schedule))),
                     Midnight(SkipWeekend(context.current_time)) + FALLBACK_DAY_START * 60,
                     <<>>),
        "fallback", FALLBACK_CONFIDENCE,
        <<"Using fallback scheduling - results may not be optimal">>)

\* generate_schedule, lines 57-101.  Everything after the prompt is inside the
\* try; len(result.scheduled_events) of the log call raises on None.
generate_schedule(context, outcome) ==
    IF outcome.kind = "raises" THEN create_fallback_schedule(context)
    ELSE LET parsed == parse_scheduling_response(outcome)
         IN  IF parsed.raised THEN create_fallback_schedule(context)
             ELSE IF parsed.value.scheduled_events = "null"
             THEN create_fallback_schedule(context)
             ELSE parsed.value

\* POST /api/v1/schedule, main.py lines 166-225: the body of the answer made
\* from the result of the client (neither raises in this model)
schedule_response(context, result) ==
    LET scheduled_task_ids ==
            {result.scheduled_events[k].task_id : k \in 1..Len(result.scheduled_events)}
        asked == context.tasks_to_schedule
    IN  [success |-> TRUE,
         scheduled_events |-> result.scheduled_events,
         confidence_score |-> result.confidence_score,
         warnings |-> result.warnings,
         unscheduled_tasks |->
             [k \in 1..Len(SelectSeq(asked, LAMBDA task : task.id \notin scheduled_task_ids))
                 |-> SelectSeq(asked, LAMBDA task : task.id \notin scheduled_task_ids)[k].id]]

\* The clock of a call: a Monday morning, a Monday evening, a Friday
\* afternoon, a Saturday
ContextTimes == {DateTime(0, 8, 0), DateTime(0, 17, 30), DateTime(4, 14, 0), DateTime(5, 10, 0)}

\* One call of generate_schedule
GenerateSchedule ==
    /\ sched_call.stage = "idle"
    /\ \E current_time \in ContextTimes, tasks \in TaskLists, outcome \in ProviderOutcomes :
          LET context == [tasks_to_schedule |-> tasks, current_time |-> current_time,
                          existing_events |-> <<FixedAppointment>>]
              result == generate_schedule(context, outcome)
          IN  sched_call' = [stage |-> "returned", context |-> context,
                             outcome |-> outcome,
                             result |-> result,
                             http_response |-> schedule_response(context, result)]
    /\ UNCHANGED <<orchVars, detVars, planVars, brickVars, convVars, oauthVars, apiVars, calVars, genVars>>

LlmNext == GenerateSchedule

LlmSpec == Init /\ [][LlmNext]_vars

(***************************************************************************)
(* Properties of the planner's LLM client                                  *)
(***************************************************************************)
\* The provider call failed or the reply holds no parseable JSON object
LlmFailed(outcome) ==
    \/ outcome.kind \in {"raises", "none"}
    \/ /\ outcome.kind = "text"
       /\ \A i, j \in 1..Len(outcome.content) :
             ~IsJsonObject(Slice(outcome.content, i - 1, j))

\* The plan of the heuristic planner for the tasks of a context
HeuristicPlan(context) ==
    LET run == schedule_tasks(
                   context.tasks_to_schedule,
                   generate_available_slots(context.current_time,
                                            context.current_time + PLANNING_HORIZON_DAYS * 1440,
                                            <<>>, DefaultPreferences))
    IN  [k \in 1..Len(run.scheduled_slots) |->
            ScheduledEvent(run.scheduled_slots[k].event_id,
                           run.scheduled_slots[k].start, run.scheduled_slots[k].end)]

\* What holds of every answer given after a failure
C17_FallbackAnswer ==
    (sched_call.stage = "returned" /\ LlmFailed(sched_call.outcome))
        => /\ sched_call.result.confidence_score = FALLBACK_CONFIDENCE
           /\ sched_call.result.warnings # <<>>

\* C17: when the provider call fails or the reply holds no parseable JSON
\* object, generate_schedule returns the plan of the heuristic planner with
\* confidence 0.3 and a warning.
C17_FallbackIsHeuristicPlan ==
    (sched_call.stage = "returned" /\ LlmFailed(sched_call.outcome))
        => /\ sched_call.result.confidence_score = FALLBACK_CONFIDENCE
           /\ sched_call.result.warnings # <<>>
           /\ sched_call.result.scheduled_events = HeuristicPlan(sched_call.context)

\* An event the planner must not return for a request: its task was not asked
\* for, it does not end after it starts, or it overlaps an appointment that
\* cannot be moved
InvalidEvent(context, event) ==
    \/ event.task_id \notin {context.tasks_to_schedule[k].id :
                                k \in 1..Len(context.tasks_to_schedule)}
    \/ event.end_time <= event.start_time
    \/ \E k \in 1..Len(context.existing_events) :
          /\ ~context.existing_events[k].is_moveable
          /\ event.start_time < context.existing_events[k].end_time
          /\ event.end_time > context.existing_events[k].start_time

\* C25: an event of the LLM planner's reply whose task_id is not one of the
\* input tasks, whose end_time is not after its start_time, or which overlaps
\* a non-moveable existing event is not among the scheduled_events of the
\* response, and the response carries a warning.
C25_InvalidEventsRemoved ==
    (sched_call.stage = "returned" /\ ~LlmFailed(sched_call.outcome)) =>
        LET parsed == parse_scheduling_response(sched_call.outcome)
        IN  (~parsed.raised /\ parsed.value.scheduled_events # "null") =>
              \A k \in 1..Len(parsed.value.scheduled_events) :
                  LET event == parsed.value.scheduled_events[k]
                  IN  InvalidEvent(sched_call.context, event) =>
                        /\ \A n \in 1..Len(sched_call.http_response.scheduled_events) :
                              sched_call.http_response.scheduled_events[n] # event
                        /\ sched_call.http_response.warnings # <<>>


(***************************************************************************)
(* Google token refresh                                                    *)
(* services/calendar-integration/app/api/v1/auth.py                        *)
(* services/calendar-integration/app/core/oauth/google_oauth.py            *)
(* services/calendar-integration/app/core/oauth/token_storage.py           *)
(*                                                                         *)
(* refresh_google_tokens awaits three times: the read of the stored        *)
(* tokens, the provider's token endpoint, the write of the new tokens.     *)
(* Other requests run between them.                                        *)
(***************************************************************************)
MaxRefreshes == 3        \* refresh requests started

RunningRefresh(q) == q.pc \in {"read", "called"}

Sum3(f) == f["u1"] + f["u2"] + f["u3"]

\* refresh_google_tokens, lines 235-249: the request arrives and
\* token_storage.get_user_tokens returns.  The HTTPException(404) raised for
\* a user without tokens is caught by the handler's own except, lines 267-277.
RefreshGetTokens(r) ==
    /\ refreshes[r].pc \in {"idle", "done"}
    /\ refresh_count < MaxRefreshes
    /\ refresh_count' = refresh_count + 1
    /\ \E uid \in OAuthUsers :
          LET tokens == token_store[uid]
              peers == {o \in RefreshSlots \ {r} :
                           RunningRefresh(refreshes[o]) /\ refreshes[o].user_id = uid}
              mine == IF tokens = NoTokens
                      THEN [IdleRefresh EXCEPT !.pc = "done", !.user_id = uid,
                                               !.status = 500]
                      ELSE [IdleRefresh EXCEPT !.pc = "read", !.user_id = uid,
                                               !.tokens = tokens, !.peers = peers]
          IN  refreshes' = [o \in RefreshSlots |->
                              IF o = r THEN mine
                              ELSE IF o \in peers /\ tokens # NoTokens
                              THEN [refreshes[o] EXCEPT !.peers = @ \cup {r}]
                              ELSE [refreshes[o] EXCEPT !.peers = @ \ {r}]]
    /\ UNCHANGED <<token_store, provider_calls, orchVars, detVars, planVars,
                   brickVars, convVars, llmVars, apiVars, calVars,
                   genVars>>

\* GoogleOAuthClient.refresh_tokens, lines 103-147: one POST to the token
\* endpoint; answers other than 200 raise, and the handler responds 500.
RefreshCallProvider(r) ==
    /\ refreshes[r].pc = "read"
    /\ provider_calls' = [provider_calls EXCEPT ![refreshes[r].user_id] = @ + 1]
    /\ \E answer \in {200, 400} :
          IF answer = 200
          THEN refreshes' = [refreshes EXCEPT
                   ![r].pc = "called", ![r].called = TRUE,
                   ![r].new_tokens = Tokens(Sum3(provider_calls) + 1,
                                            refreshes[r].tokens.refresh_token)]
          ELSE refreshes' = [refreshes EXCEPT
                   ![r].pc = "done", ![r].called = TRUE, ![r].status = 500]
    /\ UNCHANGED <<token_store, refresh_count, orchVars, detVars, planVars,
                   brickVars, convVars, llmVars, apiVars, calVars,
                   genVars>>

\* refresh_google_tokens, lines 251-265: store_user_tokens, then the response
RefreshStoreTokens(r) ==
    /\ refreshes[r].pc = "called"
    /\ token_store' = [token_store EXCEPT ![refreshes[r].user_id] = refreshes[r].new_tokens]
    /\ refreshes' = [refreshes EXCEPT ![r].pc = "done", ![r].status = 200]
    /\ UNCHANGED <<provider_calls, refresh_count, orchVars, detVars, planVars,
                   brickVars, convVars, llmVars, apiVars, calVars,
                   genVars>>

OAuthNext ==
    \/ \E r \in RefreshSlots : RefreshGetTokens(r)
    \/ \E r \in RefreshSlots : RefreshCallProvider(r)
    \/ \E r \in RefreshSlots : RefreshStoreTokens(r)

OAuthSpec == Init /\ [][OAuthNext]_vars

(***************************************************************************)
(* Properties of the token refresh                                         *)
(***************************************************************************)
\* C18: of two refresh requests for one user that overlap in time, at most
\* one calls the provider's token endpoint, and both end with the same
\* stored tokens.
C18_RefreshesCollapse ==
    \A r \in RefreshSlots : \A o \in refreshes[r].peers :
        /\ ~(refreshes[r].called /\ refreshes[o].called)
        /\ (refreshes[r].status = 200 /\ refreshes[o].status = 200)
              => refreshes[r].new_tokens = refreshes[o].new_tokens


(***************************************************************************)
(* POST /api/v1/schedule/generate                                          *)
(* services/orchestrator/app/api/v1/schedule.py                            *)
(* services/orchestrator/app/clients/scheduler_client.py                   *)
(***************************************************************************)
MaxGenerateRequests == 2         \* generate requests received

SCHEDULER_CLIENT_ATTEMPTS == 3   \* @retry(stop=stop_after_attempt(3))

\* What one POST to the scheduler service ends in: a 200 answer whose body
\* carries success true, success false or no success field; an answer with
\* an error status; a timeout; no connection.
SchedulerOutcomes ==
    {"ok_success", "ok_failure", "ok_no_field", "error_status", "timeout", "unreachable"}

SchedulerFailed(outcome) == outcome \in {"error_status", "timeout", "unreachable"}

\* A response of the endpoint: the status code and, of the body, the success
\* field and whether an error text is present (the detail of an HTTPException
\* or the error field of ScheduleGenerateResponse).
HttpResponse(status_code, success, has_error) ==
    [status_code |-> status_code, success |-> success, has_error |-> has_error]

\* generate_schedule of schedule.py, lines 589-621: the answer of the
\* scheduler is passed on
ProxiedResponse(outcome) == HttpResponse(200, outcome = "ok_success", FALSE)

\* generate_schedule of schedule.py, lines 623-645: the except branch returns
\* a ScheduleGenerateResponse, which is sent with status 200
FailureResponse == HttpResponse(200, FALSE, TRUE)

\* generate_schedule of schedule.py, lines 511-521: the request arrives and
\* the feature flag is checked
ReceiveGenerate ==
    /\ gen_req.stage \in {"idle", "responded"}
    /\ gen_count < MaxGenerateRequests
    /\ gen_count' = gen_count + 1
    /\ IF ~flag_enabled
       THEN gen_req' = [stage |-> "responded", attempts |-> <<>>,
                        response |-> HttpResponse(403, FALSE, TRUE)]
       ELSE gen_req' = [stage |-> "calling", attempts |-> <<>>,
                        response |-> NoHttpResponse]
    /\ UNCHANGED <<flag_enabled, orchVars, detVars, planVars, brickVars, convVars,
                   llmVars, oauthVars, calVars, genVars>>

\* SchedulerClient.generate_schedule, lines 102-166: one attempt.  A failed
\* attempt is repeated by the retry decorator; after the last one the
\* exception reaches the endpoint's except branch.
SchedulerAttempt ==
    /\ gen_req.stage = "calling"
    /\ \E outcome \in SchedulerOutcomes :
          LET attempts == Append(gen_req.attempts, outcome)
          IN  IF ~SchedulerFailed(outcome)
              THEN gen_req' = [stage |-> "responded", attempts |-> attempts,
                               response |-> ProxiedResponse(outcome)]
              ELSE IF Len(attempts) >= SCHEDULER_CLIENT_ATTEMPTS
              THEN gen_req' = [stage |-> "responded", attempts |-> attempts,
                               response |-> FailureResponse]
              ELSE gen_req' = [gen_req EXCEPT !.attempts = attempts]
    /\ UNCHANGED <<flag_enabled, gen_count, orchVars, detVars, planVars, brickVars,
                   convVars, llmVars, oauthVars, calVars, genVars>>

\* FeatureFlagManager.refresh_flags, lines 75-77: the flag is read again from
\* the environment
RefreshFlags ==
    /\ gen_req.stage \in {"idle", "responded"}
    /\ \E enabled \in BOOLEAN :
          /\ enabled # flag_enabled
          /\ flag_enabled' = enabled
    /\ UNCHANGED <<gen_req, gen_count, orchVars, detVars, planVars, brickVars,
                   convVars, llmVars, oauthVars, calVars, genVars>>

ApiNext ==
    \/ ReceiveGenerate
    \/ SchedulerAttempt
    \/ RefreshFlags

ApiSpec == Init /\ [][ApiNext]_vars

(***************************************************************************)
(* Properties of the generate endpoint                                     *)
(***************************************************************************)
\* C19: a request whose call of the scheduler service ended in an error
\* status, a timeout or no connection is answered with status 502 and a body
\* with an error field.
C19_SchedulerFailureIs502 ==
    ( /\ gen_req.stage = "responded"
      /\ gen_req.attempts # <<>>
      /\ SchedulerFailed(Last(gen_req.attempts)) )
        => /\ gen_req.response.status_code = 502
           /\ gen_req.response.has_error


(***************************************************************************)
(* The conflict endpoints of the calendar integration                      *)
(* services/calendar-integration/app/api/v1/calendar.py                    *)
(***************************************************************************)
\* ConflictDetector(), detector.py lines 72-74: self.conflicts of a new engine
FreshDetector == <<>>

\* What get_user_tokens and list_events do for a request: return, or raise
FetchOutcomes == {"ok", "raises"}

\* strategy strings a client may send: the seven of strategy_map and one more
PostedStrategies == ResolutionStrategies \cup {"postpone"}

\* GET /conflicts/{user_id}, lines 418-495: the body of the answer
get_conflicts(fetch, events, window) ==
    IF fetch = "raises" THEN [status |-> 500, conflicts |-> <<>>]
    ELSE LET run == detect_conflicts(FreshDetector, events, window)
         IN  IF run.raised THEN [status |-> 500, conflicts |-> <<>>]
             ELSE [status |-> 200,
                   conflicts |-> [k \in 1..Len(run.conflicts) |->
                                     [id |-> run.conflicts[k].conflict_id,
                                      type |-> run.conflicts[k].conflict_type]]]

\* POST /conflicts/{user_id}/resolve, lines 498-570, for a body of one entry:
\* the ValueError of resolve_conflict for an id the engine does not hold is
\* caught and the entry skipped
resolve_conflicts(fetch, conflict_id, strategy_str) ==
    IF fetch = "raises" THEN [status |-> 500, resolutions |-> <<>>]
    ELSE LET detector == FreshDetector
         IN  IF strategy_str \notin ResolutionStrategies
             THEN [status |-> 200, resolutions |-> <<>>]
             ELSE IF conflict_id \notin DOMAIN detector
             THEN [status |-> 200, resolutions |-> <<>>]
             ELSE LET resolution == apply_resolution_strategy(
                                        detector[conflict_id], strategy_str, NoDecision)
                  IN  [status |-> 200,
                       resolutions |-> <<[conflict_id |-> resolution.conflict_id,
                                          strategy |-> resolution.strategy]>>]

\* A client asks for the conflicts of a calendar
GetConflicts ==
    /\ cal_req.stage = "idle"
    /\ \E fetch \in FetchOutcomes, events \in EventLists, window \in Windows :
          cal_req' = [stage |-> "listed", events |-> events, window |-> window,
                      listed |-> get_conflicts(fetch, events, window)]
    /\ UNCHANGED <<orchVars, detVars, planVars, brickVars, convVars, llmVars,
                   oauthVars, apiVars, genVars>>

\* The client then asks to resolve a conflict: one of the answer, or one it made up
PostResolve ==
    /\ cal_req.stage = "listed"
    /\ \E fetch \in FetchOutcomes,
          conflict_id \in {cal_req.listed.conflicts[k].id :
                              k \in 1..Len(cal_req.listed.conflicts)} \cup {"overlap_x_y"},
          strategy_str \in PostedStrategies :
          cal_req' = [cal_req EXCEPT !.stage = "resolved"]
                     @@ [fetch |-> fetch, conflict_id |-> conflict_id,
                         strategy |-> strategy_str,
                         resolved |-> resolve_conflicts(fetch, conflict_id, strategy_str)]
    /\ UNCHANGED <<orchVars, detVars, planVars, brickVars, convVars, llmVars,
                   oauthVars, apiVars, genVars>>

CalNext ==
    \/ GetConflicts
    \/ PostResolve

CalSpec == Init /\ [][CalNext]_vars

(***************************************************************************)
(* Properties of the conflict endpoints                                    *)
(***************************************************************************)
\* C27: for every conflict id returned by GET conflicts, a following POST
\* conflicts/resolve that names the id with a valid strategy returns a
\* resolution for that id.
C27_ListedConflictResolves ==
    (/\ cal_req.stage = "resolved"
     /\ cal_req.fetch = "ok"
     /\ cal_req.strategy \in ResolutionStrategies
     /\ \E k \in 1..Len(cal_req.listed.conflicts) :
           cal_req.listed.conflicts[k].id = cal_req.conflict_id)
        => /\ cal_req.resolved.status = 200
           /\ \E n \in 1..Len(cal_req.resolved.resolutions) :
                 cal_req.resolved.resolutions[n].conflict_id = cal_req.conflict_id


(***************************************************************************)
(* SimpleScheduler.generate_available_slots, one loop iteration at a time  *)
(* services/scheduler/app/solver/simple_scheduler.py                       *)
(***************************************************************************)
\* UserPreferences the scheduler is built with: the defaults, no lunch
\* break, no breaks between work periods, shorter work periods
PreferenceSettings ==
    {DefaultPreferences,
     [DefaultPreferences EXCEPT !.lunch_duration = 0],
     [DefaultPreferences EXCEPT !.break_duration = 0],
     [DefaultPreferences EXCEPT !.break_frequency = 45]}

\* generate_available_slots, lines 58-69: the call and what precedes the loop
BeginGenerate ==
    /\ slot_gen.pc = "idle"
    /\ \E start_date \in PlanStarts, horizon \in 0..MaxHorizonDays,
          existing_events \in ExistingEventLists, prefs \in PreferenceSettings :
          slot_gen' = [pc |-> "day", prefs |-> prefs,
                       start_date |-> start_date,
                       end_date |-> start_date + horizon * 1440,
                       existing_events |-> existing_events,
                       current_date |-> Midnight(start_date),
                       periods |-> <<>>, current_time |-> 0, slot_end |-> 0,
                       available_slots |-> <<>>]
    /\ UNCHANGED <<orchVars, detVars, planVars, brickVars, convVars, llmVars,
                   oauthVars, apiVars, calVars>>

\* generate_available_slots, lines 71-92: the test of the while loop and one
\* iteration up to the call of _add_breaks_and_lunch
DayStep ==
    /\ slot_gen.pc = "day"
    /\ slot_gen' =
          IF ~(slot_gen.current_date <= slot_gen.end_date)
          THEN [slot_gen EXCEPT !.pc = "done"]
          ELSE IF Weekday(slot_gen.current_date) >= 5
          THEN [slot_gen EXCEPT !.current_date = @ + 1440]
          ELSE LET work_slot ==
                       FreeSlot(slot_gen.current_date + slot_gen.prefs.work_start,
                                slot_gen.current_date + slot_gen.prefs.work_end)
               IN  [slot_gen EXCEPT
                       !.pc = "slot",
                       !.periods = subtract_existing_events(<<work_slot>>,
                                                            slot_gen.existing_events)]
    /\ UNCHANGED <<orchVars, detVars, planVars, brickVars, convVars, llmVars,
                   oauthVars, apiVars, calVars>>

\* _add_breaks_and_lunch, lines 216-218: the for loop takes the next slot;
\* after the last one generate_available_slots goes on to the next day
\* (lines 94-96)
SlotStep ==
    /\ slot_gen.pc = "slot"
    /\ slot_gen' =
          IF Len(slot_gen.periods) = 0
          THEN [slot_gen EXCEPT !.pc = "day", !.current_date = @ + 1440]
          ELSE [slot_gen EXCEPT !.pc = "period",
                                !.current_time = Head(slot_gen.periods).start,
                                !.slot_end = Head(slot_gen.periods).end,
                                !.periods = Tail(@)]
    /\ UNCHANGED <<orchVars, detVars, planVars, brickVars, convVars, llmVars,
                   oauthVars, apiVars, calVars>>

\* _add_breaks_and_lunch, line 220: the test of the while loop
PeriodTest ==
    /\ slot_gen.pc = "period"
    /\ slot_gen' = IF slot_gen.current_time < slot_gen.slot_end
                   THEN [slot_gen EXCEPT !.pc = "body"]
                   ELSE [slot_gen EXCEPT !.pc = "slot"]
    /\ UNCHANGED <<orchVars, detVars, planVars, brickVars, convVars, llmVars,
                   oauthVars, apiVars, calVars>>

\* _add_breaks_and_lunch, lines 221-245: one iteration of the body of the
\* while loop, back to its test
PeriodBody ==
    /\ slot_gen.pc = "body"
    /\ LET current_time == slot_gen.current_time
           slot_end == slot_gen.slot_end
           prefs == slot_gen.prefs
           next_break == current_time + prefs.break_frequency
           work_end == Min2(next_break, slot_end)
           lunch_time == slot_gen.current_date + prefs.lunch_time
       IN  slot_gen' =
             IF current_time <= lunch_time /\ lunch_time <= work_end
             THEN [slot_gen EXCEPT
                      !.pc = "period",
                      !.available_slots =
                          IF current_time < lunch_time
                          THEN Append(@, FreeSlot(current_time, lunch_time)) ELSE @,
                      !.current_time = lunch_time + prefs.lunch_duration]
             ELSE [slot_gen EXCEPT
                      !.pc = "period",
                      !.available_slots = Append(@, FreeSlot(current_time, work_end)),
                      !.current_time = IF work_end < slot_end
                                       THEN work_end + prefs.break_duration
                                       ELSE work_end]
    /\ UNCHANGED <<orchVars, detVars, planVars, brickVars, convVars, llmVars,
                   oauthVars, apiVars, calVars>>

GenNext ==
    \/ BeginGenerate
    \/ DayStep
    \/ SlotStep
    \/ PeriodTest
    \/ PeriodBody

GenSpec == Init /\ [][GenNext]_vars

\* The interpreter goes on executing a call it has begun
GenFairSpec ==
    /\ GenSpec
    /\ WF_vars(DayStep) /\ WF_vars(SlotStep)
    /\ WF_vars(PeriodTest) /\ WF_vars(PeriodBody)

(***************************************************************************)
(* Properties of generate_available_slots as a loop                        *)
(***************************************************************************)
\* The slots of a finished call are those of generate_available_slots
GenComputesSlots ==
    slot_gen.pc = "done" =>
        slot_gen.available_slots =
            generate_available_slots(slot_gen.start_date, slot_gen.end_date,
                                     slot_gen.existing_events, slot_gen.prefs)

\* C30: generate_available_slots terminates for every finite date range,
\* every list of existing events and every preference setting with
\* break_frequency of at least 1 minute and non-negative break and lunch
\* durations.
C30_GenerateSlotsTerminates ==
    (/\ slot_gen.pc = "day"
     /\ slot_gen.prefs.break_frequency >= 1
     /\ slot_gen.prefs.break_duration >= 0
     /\ slot_gen.prefs.lunch_duration >= 0) ~> (slot_gen.pc = "done")

====
